---- MODULE Spec2Model ----
(***************************************************************************)
(* Lot-based portfolio accounting and daily valuation engine.              *)
(*                                                                         *)
(*   compute_daily          backend/app/services/snapshots.py  (Decimal)   *)
(*   build_daily_snapshots  backend/smart_advisor/pipeline.py  (float)     *)
(*                                                                         *)
(* Both functions are folds over the sorted transactions and the priced    *)
(* dates.  The walk is modelled one loop iteration at a time: the inputs   *)
(* are revealed in the order in which the sorted loops visit them, so a    *)
(* behaviour of the model is one call on one input, and every state with   *)
(* pc = "day_loop" is one in which the call may find its dates exhausted   *)
(* and return snapshots.                                                   *)
(*                                                                         *)
(* Numbers.  A Decimal (and a float) amount is an integer number of units  *)
(* of 10^-DecimalPlaces.  Addition, subtraction and multiplication by a    *)
(* whole number are exact, as they are for Decimal at the magnitudes used  *)
(* here; a division rounds its quotient half-even, which is what the       *)
(* Decimal context does when the quotient does not terminate.  Share       *)
(* quantities are whole numbers.                                           *)
(***************************************************************************)
EXTENDS Integers, Sequences, FiniteSets, TLC

\* ------------------------------------------------------------------ bounds
\* digits kept after the decimal point by a division
DecimalPlaces == 2
\* priced dates walked by one call on freely drawn inputs
MaxDay == 2
\* transactions handed to one call
MaxTx == 3

\* build_daily_snapshots: timeline dates and transactions of one run
MaxDate == 2

MaxTrades == 2

\* calls of compute_daily: transactions passed, and the dates they and the
\* prices may carry
MaxCallTx == 2

MaxCallDate == 2

\* requests that recompute the snapshots of one symbol
MaxRequests == 2
MaxCacheCalls == 3
MaxBatchTx == 2
MaxBatchDate == 2
\* transactions given to both engines at once
MaxPairTx == 3

\* ------------------------------------------------------------- arithmetic
RECURSIVE Pow10(_)
Pow10(n) == IF n = 0 THEN 1 ELSE 10 * Pow10(n - 1)

Scale == Pow10(DecimalPlaces)

\* the Decimal (float) value of the whole number x
D(x) == x * Scale

Abs(x) == IF x < 0 THEN -x ELSE x
Max(a, b) == IF a >= b THEN a ELSE b
Min(a, b) == IF a <= b THEN a ELSE b

\* n / d rounded to a whole number of units, ties to even (ROUND_HALF_EVEN)
DivRound(n, d) ==
    LET sign == IF (n < 0) = (d < 0) THEN 1 ELSE -1
        an   == Abs(n)
        ad   == Abs(d)
        q    == an \div ad
        r    == an % ad
        up   == (2 * r > ad) \/ (2 * r = ad /\ q % 2 = 1)
    IN  sign * (IF up THEN q + 1 ELSE q)

RECURSIVE SumSeq(_)
SumSeq(s) == IF s = <<>> THEN 0 ELSE Head(s) + SumSeq(Tail(s))

\* ----------------------------------------------------------------- inputs
LotMethods == {"FIFO", "LIFO", "SPEC_ID"}
\* a type that is neither BUY nor SELL (SPLIT and FEE take the same path)
OtherTypes == {"DIVIDEND"}

\* <<quantity, price, fee, tax>> of the BUY orders a call may hold: a taxed
\* lot, a lot whose cost per share does not terminate (7 / 3), and shares
\* received at no cost
BuyOrders ==
    { <<1, D(2), D(0), D(1)>>, <<3, D(2), D(1), D(0)>>, <<1, D(0), D(0), D(0)>> }
\* SELL orders; the quantity is recorded with either sign
SellOrders ==
    { <<-1, D(3), D(1), D(0)>>, <<2, D(2), D(0), D(1)>> }
DayPrices == {D(1), D(3)}

NoIds == <<>>

\* TransactionInput; ids number the transactions in sorted (date, id) order
TransactionInput(id, date, type, quantity, price, fee, tax, ids) ==
    [id |-> id, date |-> date, type |-> type, quantity |-> quantity,
     price |-> price, fee |-> fee, tax |-> tax, specific_lot_ids |-> ids]

NoTx == TransactionInput(0, 0, "NONE", 0, 0, 0, 0, NoIds)

LotPosition(lot_id, quantity, cost_per_share) ==
    [lot_id |-> lot_id, quantity |-> quantity, cost_per_share |-> cost_per_share]

\* the test fixture of tests/test_lot_math.py
GoldenTransactions ==
    << TransactionInput(1, 1, "BUY", 100, D(10), D(5), D(0), NoIds),
       TransactionInput(2, 2, "BUY", 50, D(12), D(5), D(0), NoIds),
       TransactionInput(3, 4, "SELL", -50, D(15), D(5), D(0), NoIds) >>

GoldenPrices == << D(10), D(12), D(14), D(15) >>

\* ------------------------------------------------------------------ state
VARIABLES
    feed,                 \* "any": inputs drawn freely; "golden": the fixture
    lot_method,           \* compute_daily's lot_method argument
    pc,                   \* position of the walk
    day,                  \* index of the current date in sorted(price_series)
    price_series,         \* prices of the dates walked so far
    transactions_by_date, \* per date, the transactions fetched so far
    tx,                   \* loop variable: the transaction just applied
    lots,                 \* open LotPositions, in list order
    realized_pl,
    peak_hypo,
    snapshots

\* build_daily_snapshots, one symbol's pass of the outer loop
VARIABLES
    fx_provider,             \* the fx_provider argument: a rate table or None
    estimated_sell_fee_bps,
    estimated_sell_fee_flat,
    p_pc,                    \* position of the walk
    current_date,            \* index of the current date in timeline_dates
    price_map,               \* per date walked, its PriceBar or NoBar
    symbol_transactions,     \* the sorted transactions consumed so far (tx_index of them)
    p_lots,                  \* the deque of open _Lots
    p_shares_open,
    p_cost_basis_open,
    p_realized_pl,
    p_peak_hypo,
    p_snapshots

\* a caller of compute_daily: the arguments it holds and the results it kept
VARIABLES
    call_transactions,    \* the transactions the caller holds
    call_prices,          \* the price_series argument: date -> price
    call_method,          \* the lot_method argument
    prev_result,          \* what the call before the last returned
    last_result           \* what the last call returned

\* a caller of FXRateProvider.rate
VARIABLES
    fx_call,              \* the provider and the arguments of the last call
    fx_outcome            \* what it returned, or that it raised KeyError

\* the database, the requests that recompute a symbol's snapshots, and a reader
VARIABLES
    db_transactions,      \* ids of the committed transaction rows of the symbol
    db_snapshots,         \* the committed daily_portfolio_snapshot rows of the symbol
    db_prices,            \* the dates of the daily_bar rows of the symbol
    tx_quantity,          \* per request, the quantity of the BUY its payload carries
    requests,             \* per request, its position and its uncommitted work
    observed              \* the rows the reader's last SELECT returned, and the
                          \* requests whose DELETE was then done and not committed

\* a CachingPriceSource, its delegate, and the caller's mappings
VARIABLES
    delegate_prices,      \* which prices the delegate holds: "loaded" or "updated"
    heap,                 \* the dict objects: heap[o] is the mapping object o holds
    range_cache,          \* self._range_cache: key -> the dict object stored
    delegate_calls,       \* per key, how often the delegate was invoked
    first_result,         \* per key, what the delegate's first invocation returned
    call_log              \* per call, its key, the object returned and its content then

\* a caller of build_daily_snapshots
VARIABLES
    build_call,           \* the arguments of the call
    build_outcome         \* what it returned, or that it raised KeyError

cd_vars == << feed, lot_method, pc, day, price_series, transactions_by_date, tx,
              lots, realized_pl, peak_hypo, snapshots >>

p_vars == << fx_provider, estimated_sell_fee_bps, estimated_sell_fee_flat, p_pc,
             current_date, price_map, symbol_transactions, p_lots, p_shares_open,
             p_cost_basis_open, p_realized_pl, p_peak_hypo, p_snapshots >>

call_vars == << call_transactions, call_prices, call_method, prev_result, last_result >>

\* the variables outside the two walks
rate_vars == << fx_call, fx_outcome >>

db_vars == << db_transactions, db_snapshots, db_prices, tx_quantity, requests, observed >>

cache_vars == << delegate_prices, heap, range_cache, delegate_calls, first_result,
                 call_log >>

build_vars == << build_call, build_outcome >>

o_vars == << call_vars, rate_vars, db_vars, cache_vars, build_vars >>

vars == << cd_vars, p_vars, o_vars >>

\* Decimal("-Infinity") and finite peaks
NegInfinity == [neg_inf |-> TRUE, v |-> 0]
Finite(v) == [neg_inf |-> FALSE, v |-> v]

\* number of transactions fetched so far
TxCount == SumSeq([d \in 1..Len(transactions_by_date) |-> Len(transactions_by_date[d])])

\* -------------------------------------------------------------- lot ledger
\* _pop_lot: the index the pop removes
PopIndex(ls, method) ==
    IF method = "FIFO" THEN 1
    ELSE IF method = "LIFO" THEN Len(ls)
    ELSE 1

\* mutant: the pop also drops the lots in front of the one it returns
RemoveThrough(ls, i) == SubSeq(ls, i + 1, Len(ls))

RemoveAt(ls, i) == SubSeq(ls, 1, i - 1) \o SubSeq(ls, i + 1, Len(ls))

\* mutant: a lot with quantity left always goes to the back
ReinsertAtBack(ls, lot, method) == Append(ls, lot)

\* where a lot with quantity left goes back
Reinsert(ls, lot, method) ==
    IF method = "FIFO" THEN <<lot>> \o ls ELSE Append(ls, lot)

\* mutant: the whole remaining quantity is taken from the popped lot
TakeQtyRemaining(lot, remaining) == remaining

\* take_qty = min(lot.quantity, remaining)
TakeQty(lot, remaining) == Min(lot.quantity, remaining)

\* the while loop of a SELL
RECURSIVE CloseLots(_, _, _, _)
CloseLots(ls, remaining, lot_cost_total, method) ==
    IF ~(remaining > 0 /\ ls # <<>>)
    THEN [lots |-> ls, remaining |-> remaining, lot_cost_total |-> lot_cost_total]
    ELSE LET i        == PopIndex(ls, method)
             lot      == ls[i]
             rest     == RemoveAt(ls, i)
             take_qty == TakeQty(lot, remaining)
             left     == [lot EXCEPT !.quantity = lot.quantity - take_qty]
             after    == IF left.quantity > 0 THEN Reinsert(rest, left, method) ELSE rest
         IN  CloseLots(after, remaining - take_qty,
                       lot_cost_total + take_qty * lot.cost_per_share, method)

\* cost of a BUY
BuyCost(t) == t.quantity * t.price + t.fee + t.tax

OpenLot(t) == LotPosition(t.id, t.quantity, DivRound(BuyCost(t), t.quantity))

\* mutant: the recorded (signed) quantity is used as it is
SellQtySigned(t) == t.quantity

SellQty(t) == Abs(IF t.quantity < 0 THEN -t.quantity ELSE t.quantity)

\* mutant: the tax is not deducted from the proceeds
SellProceedsBeforeTax(t) == SellQty(t) * t.price - t.fee

SellProceeds(t) == SellQty(t) * t.price - t.fee - t.tax

\* ---------------------------------------------------------------- valuation
\* mutant: the open lots are counted, their quantities are not added up
SharesOpenLotCount(ls) == Len(ls)

SharesOpen(ls) == SumSeq([i \in 1..Len(ls) |-> ls[i].quantity])

\* mutant: the lots' costs per share are added up without their quantities
CostBasisOpenPerShare(ls) == SumSeq([i \in 1..Len(ls) |-> ls[i].cost_per_share])

CostBasisOpen(ls) == SumSeq([i \in 1..Len(ls) |-> ls[i].quantity * ls[i].cost_per_share])

\* mutant: the realized P/L is left out of the hypothetical liquidation P/L
HypoLiquidationUnrealizedOnly(ls, realized, day_price) ==
    SharesOpen(ls) * day_price - CostBasisOpen(ls)

HypoLiquidation(ls, realized, day_price) ==
    IF SharesOpen(ls) = 0 THEN realized
    ELSE realized + (SharesOpen(ls) * day_price - CostBasisOpen(ls))

DayOpportunity(ls, realized, day_price) ==
    IF SharesOpen(ls) = 0 THEN 0
    ELSE Max(0, HypoLiquidation(ls, realized, day_price) - realized)

\* mutant: the first observation is compared with a peak of zero
PeakUpdateFromZero(peak, hypo) ==
    LET seeded == IF peak = NegInfinity THEN 0 ELSE peak.v
    IN  Max(seeded, hypo)

PeakUpdate(peak, hypo) ==
    LET seeded == IF peak = NegInfinity THEN hypo ELSE peak.v
    IN  Max(seeded, hypo)

Drawdown(hypo, peak) ==
    IF peak # 0 THEN DivRound((hypo - peak) * Scale, peak) * 100 ELSE 0

DailySnapshot(d, ls, realized, day_price, peak) ==
    LET hypo == HypoLiquidation(ls, realized, day_price)
        pk   == PeakUpdate(peak, hypo)
    IN  [date |-> d,
         shares_open |-> SharesOpen(ls),
         market_value_base |-> SharesOpen(ls) * day_price,
         cost_basis_open_base |-> CostBasisOpen(ls),
         unrealized_pl_base |-> SharesOpen(ls) * day_price - CostBasisOpen(ls),
         realized_pl_to_date_base |-> realized,
         hypo_liquidation_pl_base |-> hypo,
         day_opportunity_base |-> DayOpportunity(ls, realized, day_price),
         peak_hypo_pl_to_date_base |-> pk,
         drawdown_from_peak_pct |-> Drawdown(hypo, pk)]

\* --------------------------------------------- compute_daily, as a function
\* sort key (t.date, t.id): a goes no later than b
KeyLeqDateOnly(a, b) == a.date <= b.date

KeyLeq(a, b) == a.date < b.date \/ (a.date = b.date /\ a.id <= b.id)

\* t joins the sorted sequence s behind every element that goes no later
InsertSorted(s, t) ==
    LET k == Cardinality({ i \in 1..Len(s) : KeyLeq(s[i], t) })
    IN  SubSeq(s, 1, k) \o <<t>> \o SubSeq(s, k + 1, Len(s))

\* sorted(transactions, key=lambda t: (t.date, t.id)), a stable sort
RECURSIVE SortTransactions(_)
SortTransactions(txs) ==
    IF txs = <<>> THEN <<>>
    ELSE InsertSorted(SortTransactions(SubSeq(txs, 1, Len(txs) - 1)), txs[Len(txs)])

\* the elements of a set of dates in ascending order
RECURSIVE Ascending(_)
Ascending(S) ==
    IF S = {} THEN <<>>
    ELSE LET m == CHOOSE x \in S : \A y \in S : x <= y
         IN  <<m>> \o Ascending(S \ {m})

\* mutant: only the priced dates that have transactions are walked
WalkDaysWithTransactions(prices, txs) ==
    Ascending({ d \in DOMAIN prices : \E i \in 1..Len(txs) : txs[i].date = d })

\* sorted(price_series.keys())
WalkDays(prices, txs) == Ascending(DOMAIN prices)

\* mutant: a SPLIT doubles the quantity of every open lot
ApplyTransactionWithSplit(st, t, method) ==
    IF t.type = "BUY"
    THEN [st EXCEPT !.lots = Append(st.lots, OpenLot(t))]
    ELSE IF t.type = "SELL"
    THEN LET closed == CloseLots(st.lots, SellQty(t), 0, method)
         IN  [st EXCEPT !.lots = closed.lots,
                        !.realized_pl = st.realized_pl + (SellProceeds(t) - closed.lot_cost_total)]
    ELSE IF t.type = "SPLIT"
    THEN [st EXCEPT !.lots = [i \in 1..Len(st.lots) |->
                                [st.lots[i] EXCEPT !.quantity = 2 * @]]]
    ELSE st

\* one pass of the body of the transaction loop; st holds lots and realized_pl
ApplyTransaction(st, t, method) ==
    IF t.type = "BUY"
    THEN [st EXCEPT !.lots = Append(st.lots, OpenLot(t))]
    ELSE IF t.type = "SELL"
    THEN LET closed == CloseLots(st.lots, SellQty(t), 0, method)
         IN  [st EXCEPT !.lots = closed.lots,
                        !.realized_pl = st.realized_pl + (SellProceeds(t) - closed.lot_cost_total)]
    ELSE st

RECURSIVE ApplyTransactions(_, _, _)
ApplyTransactions(st, txs, method) ==
    IF txs = <<>> THEN st
    ELSE ApplyTransactions(ApplyTransaction(st, Head(txs), method), Tail(txs), method)

\* mutant: a priced date also applies the transactions of the unpriced dates
\* before it
RECURSIVE WalkCarryingOver(_, _, _, _, _)
WalkCarryingOver(days, st, sorted, prices, method) ==
    IF days = <<>> THEN st.snapshots
    ELSE LET d     == Head(days)
             today == SelectSeq(sorted, LAMBDA t : t.date <= d)
             after == ApplyTransactions(st, today, method)
             snap  == DailySnapshot(d, after.lots, after.realized_pl, prices[d], after.peak_hypo)
         IN  WalkCarryingOver(Tail(days),
                  [after EXCEPT !.peak_hypo = Finite(snap.peak_hypo_pl_to_date_base),
                                !.snapshots = Append(after.snapshots, snap)],
                  SelectSeq(sorted, LAMBDA t : t.date > d), prices, method)

\* the day loop over days, with the transactions already in their sorted order
RECURSIVE Walk(_, _, _, _, _)
Walk(days, st, sorted, prices, method) ==
    IF days = <<>> THEN st.snapshots
    ELSE LET d     == Head(days)
             today == SelectSeq(sorted, LAMBDA t : t.date = d)
             after == ApplyTransactions(st, today, method)
             snap  == DailySnapshot(d, after.lots, after.realized_pl, prices[d], after.peak_hypo)
         IN  Walk(Tail(days),
                  [after EXCEPT !.peak_hypo = Finite(snap.peak_hypo_pl_to_date_base),
                                !.snapshots = Append(after.snapshots, snap)],
                  sorted, prices, method)

\* the locals of a fresh call
FreshCall == [lots |-> <<>>, realized_pl |-> 0, peak_hypo |-> NegInfinity, snapshots |-> <<>>]

ComputeDaily(transactions, prices, method) ==
    Walk(WalkDays(prices, transactions), FreshCall, SortTransactions(transactions),
         prices, method)

\* the caller has no result yet
NoResult == [returned |-> FALSE, transactions |-> <<>>, snapshots |-> <<>>]

\* compute_daily is not being called
CallsIdle ==
    /\ call_transactions = <<>>
    /\ call_prices = <<>>
    /\ call_method = "FIFO"
    /\ prev_result = NoResult
    /\ last_result = NoResult

\* ------------------------------------------------------------ input feeds
GoldenPending(d, n) ==
    { GoldenTransactions[i] : i \in { j \in 1..Len(GoldenTransactions) :
          j = n + 1 /\ GoldenTransactions[j].date = d } }

BuyInputs(d, n) ==
    IF feed = "golden"
    THEN { t \in GoldenPending(d, n) : t.type = "BUY" }
    ELSE { TransactionInput(n + 1, d, "BUY", o[1], o[2], o[3], o[4], NoIds) :
             o \in BuyOrders }

\* under SPEC_ID a SELL may name one of the open lots
SpecificLotIds ==
    IF lot_method = "SPEC_ID"
    THEN {NoIds} \cup { <<lots[i].lot_id>> : i \in 1..Len(lots) }
    ELSE {NoIds}

SellInputs(d, n) ==
    IF feed = "golden"
    THEN { t \in GoldenPending(d, n) : t.type = "SELL" }
    ELSE { TransactionInput(n + 1, d, "SELL", o[1], o[2], o[3], o[4], ids) :
             o \in SellOrders, ids \in SpecificLotIds }

OtherInputs(d, n) ==
    IF feed = "golden" THEN {}
    ELSE { TransactionInput(n + 1, d, ty, 1, D(2), D(0), D(0), NoIds) : ty \in OtherTypes }

DayPriceInputs(d) ==
    IF feed = "golden"
    THEN (IF d <= Len(GoldenPrices) THEN {GoldenPrices[d]} ELSE {})
    ELSE DayPrices

\* ------------------------------------------------- build_daily_snapshots
BaseCurrency == "USD"

\* smart_advisor.models.Transaction (one symbol; types are given upper-case)
Transaction(date, type, quantity, price, fee, tax, currency) ==
    [date |-> date, type |-> type, quantity |-> quantity, price |-> price,
     fee |-> fee, tax |-> tax, currency |-> currency]

PriceBar(date, adj_close, currency) ==
    [date |-> date, adj_close |-> adj_close, currency |-> currency]

\* the date is on the timeline because of its transactions only
NoBar == PriceBar(0, 0, "NONE")

\* _Lot
Lot(quantity, cost_per_share_base) ==
    [quantity |-> quantity, cost_per_share_base |-> cost_per_share_base]

\* fx_provider=None
NoFXRateProvider == [present |-> FALSE, rates |-> <<>>]

FXRateProvider(rates) == [present |-> TRUE, rates |-> rates, base_currency |-> "USD"]

\* to_currency=None
NoCurrency == ""

\* str.upper on the currency codes in use
Upper(c) ==
    CASE c = "usd" -> "USD"
      [] c = "cad" -> "CAD"
      [] OTHER -> c

\* target = to_currency or self.base_currency
Target(fx, to_currency) ==
    IF to_currency = NoCurrency THEN fx.base_currency ELSE to_currency

\* rate tables a caller may pass: CAD->USD 0.75 on the first date and 1.50 on
\* the second, or the first date's rate alone
RatesTwoDates ==
    [k \in {<<1, "CAD", "USD">>, <<2, "CAD", "USD">>} |->
        IF k[1] = 1 THEN D(3) \div 4 ELSE D(3) \div 2]

RatesFirstDate == [k \in {<<1, "CAD", "USD">>} |-> D(3) \div 4]

\* <<fx_provider, estimated_sell_fee_bps, estimated_sell_fee_flat>> of a call:
\* the defaults, an estimated fee of 25% + 2, and the two rate tables
PipelineConfigs ==
    { <<NoFXRateProvider, 0, D(0)>>,
      <<NoFXRateProvider, 2500, D(2)>>,
      <<FXRateProvider(RatesTwoDates), 0, D(0)>>,
      <<FXRateProvider(RatesFirstDate), 2500, D(2)>> }

\* product of two floats
FMul(a, b) == DivRound(a * b, Scale)

\* FXRateProvider.rate finds a rate (it raises KeyError otherwise)
HasRate(fx, d, from_currency, to_currency) ==
    \/ Upper(from_currency) = Upper(Target(fx, to_currency))
    \/ <<d, Upper(from_currency), Upper(Target(fx, to_currency))>> \in DOMAIN fx.rates

\* FXRateProvider.rate
FxRate(fx, d, from_currency, to_currency) ==
    IF Upper(from_currency) = Upper(Target(fx, to_currency)) THEN D(1)
    ELSE fx.rates[<<d, Upper(from_currency), Upper(Target(fx, to_currency))>>]

\* the outcome of a call of FXRateProvider.rate
KeyError == [raised |-> TRUE, value |-> 0]

Returned(v) == [raised |-> FALSE, value |-> v]

\* mutant: a missing entry is answered with the rate 1
RateOutcomeWithDefault(fx, d, from_currency, to_currency) ==
    IF HasRate(fx, d, from_currency, to_currency)
    THEN Returned(FxRate(fx, d, from_currency, to_currency))
    ELSE Returned(D(1))

RateOutcome(fx, d, from_currency, to_currency) ==
    IF HasRate(fx, d, from_currency, to_currency)
    THEN Returned(FxRate(fx, d, from_currency, to_currency))
    ELSE KeyError

\* FXRateProvider.rate has not been called
NoRateCall == [provider |-> NoFXRateProvider, d |-> 0, from_currency |-> "", to_currency |-> ""]

RatesIdle ==
    /\ fx_call = NoRateCall
    /\ fx_outcome = Returned(0)

\* the rate lookup of the loops succeeds
RateKnown(fx, d, currency) ==
    fx.present => HasRate(fx, d, currency, BaseCurrency)

\* mutant: every amount is converted at the first date's rate
RateOfFirstDate(fx, d, currency) ==
    IF fx.present THEN FxRate(fx, 1, currency, BaseCurrency) ELSE D(1)

\* rate = 1.0; if fx_provider: rate = fx_provider.rate(date, currency, base_currency)
RateOn(fx, d, currency) ==
    IF fx.present THEN FxRate(fx, d, currency, BaseCurrency) ELSE D(1)

\* mutant: the tax is left out of the converted charges
TotalFeeOnly(t, rate) == FMul(t.fee, rate)

TotalFeeTax(t, rate) == FMul(t.fee + t.tax, rate)

TotalCostBase(t, rate) == FMul(Abs(t.quantity) * t.price, rate) + TotalFeeTax(t, rate)

CostPerShare(t, rate) ==
    IF Abs(t.quantity) # 0 THEN DivRound(TotalCostBase(t, rate), Abs(t.quantity)) ELSE 0

ProceedsBase(t, rate) == FMul(Abs(t.quantity) * t.price, rate) - TotalFeeTax(t, rate)

\* the while loop of a SELL over the deque
RECURSIVE CloseFront(_, _, _)
CloseFront(ls, qty_to_close, cost_removed) ==
    IF ~(qty_to_close > 0 /\ ls # <<>>)
    THEN [lots |-> ls, cost_removed |-> cost_removed]
    ELSE LET lot        == Head(ls)
             close_qty  == Min(qty_to_close, lot.quantity)
             cost_piece == close_qty * lot.cost_per_share_base
             left       == [lot EXCEPT !.quantity = lot.quantity - close_qty]
             after      == IF left.quantity = 0 THEN Tail(ls) ELSE <<left>> \o Tail(ls)
         IN  CloseFront(after, qty_to_close - close_qty, cost_removed + cost_piece)

\* mutant: the estimated fee is charged on a closed position too, and the
\* proceeds are not clamped
HypoProceedsUnclamped(shares_open, market_value, bps, flat) ==
    FMul(market_value, D(1) - DivRound(bps * Scale, 10000)) - flat

HypoProceeds(shares_open, market_value, bps, flat) ==
    IF shares_open = 0 THEN 0
    ELSE Max(FMul(market_value, D(1) - DivRound(bps * Scale, 10000)) - flat, 0)

PipelinePeak(peak, hypo_pl) ==
    IF peak = NegInfinity THEN hypo_pl ELSE Max(peak.v, hypo_pl)

PipelineDrawdown(hypo_pl, peak) ==
    IF peak = 0 THEN 0 ELSE DivRound((hypo_pl - peak) * Scale, peak)

\* the DailySnapshot of smart_advisor.models for the current date; shares_in and
\* cost_in are the running totals before they are clamped
PipelineSnapshot(bar, rate, shares_in, cost_in, realized, peak, ls, bps, flat) ==
    LET price_base      == FMul(bar.adj_close, rate)
        shares_open     == Max(shares_in, 0)
        cost_basis_open == Max(cost_in, 0)
        market_value    == shares_open * price_base
        hypo_proceeds   == HypoProceeds(shares_open, market_value, bps, flat)
        hypo_pl         == realized + (hypo_proceeds - cost_basis_open)
        pk              == PipelinePeak(peak, hypo_pl)
    IN  [date |-> bar.date,
         shares_open |-> shares_open,
         market_value_base |-> market_value,
         cost_basis_open_base |-> cost_basis_open,
         unrealized_pl_base |-> market_value - cost_basis_open,
         realized_pl_to_date_base |-> realized,
         hypo_liquidation_pl_base |-> hypo_pl,
         day_opportunity_base |-> Max(0, hypo_pl - realized),
         peak_hypo_pl_to_date_base |-> pk,
         drawdown_from_peak_pct |-> PipelineDrawdown(hypo_pl, pk),
         fx_rate |-> rate,
         price_base |-> price_base,
         lot_count |-> Len(ls)]

\* ------------------------------------ build_daily_snapshots, as a function
\* the symbols of a call, in ascending order
Symbols == << "AAPL", "MSFT" >>

SymbolIndex(symbol) == CHOOSE i \in 1..Len(Symbols) : Symbols[i] = symbol

\* a Transaction or a PriceBar of a call that holds several symbols
OfSymbol(symbol, item) == [symbol |-> symbol, item |-> item]

\* _group_by_symbol: the keys in the order in which the dict received them
RECURSIVE GroupKeys(_)
GroupKeys(items) ==
    IF items = <<>> THEN <<>>
    ELSE LET before == GroupKeys(SubSeq(items, 1, Len(items) - 1))
             symbol == items[Len(items)].symbol
         IN  IF \E i \in 1..Len(before) : before[i] = symbol THEN before
             ELSE Append(before, symbol)

\* _group_by_symbol: grouped.get(symbol, []), in the order of the call
Group(items, symbol) ==
    LET own == SelectSeq(items, LAMBDA x : x.symbol = symbol)
    IN  [i \in 1..Len(own) |-> own[i].item]

\* price_map = {bar.date: bar for bar in symbol_prices}: a later bar of a date
\* replaces an earlier one
PriceMap(symbol_prices) ==
    [d \in { symbol_prices[i].date : i \in 1..Len(symbol_prices) } |->
        symbol_prices[CHOOSE i \in 1..Len(symbol_prices) :
                          /\ symbol_prices[i].date = d
                          /\ \A j \in 1..Len(symbol_prices) :
                                symbol_prices[j].date = d => j <= i]]

\* sorted(..., key=lambda tx: tx.date), a stable sort
RECURSIVE SortByDate(_)
SortByDate(txs) ==
    IF txs = <<>> THEN <<>>
    ELSE LET before == SortByDate(SubSeq(txs, 1, Len(txs) - 1))
             t      == txs[Len(txs)]
             k      == Cardinality({ i \in 1..Len(before) : before[i].date <= t.date })
         IN  SubSeq(before, 1, k) \o <<t>> \o SubSeq(before, k + 1, Len(before))

\* timeline_dates
TimelineDates(bars, trades) ==
    Ascending(DOMAIN bars
              \cup { trades[i].date : i \in 1..Len(trades) })

\* the locals of one symbol's pass
FreshPass ==
    [lots |-> <<>>, shares_open |-> 0, cost_basis_open |-> 0, realized_pl |-> 0,
     peak_hypo |-> NegInfinity, snapshots |-> <<>>, raised |-> FALSE]

\* one pass of the body of the while loop over the transactions
PassTransaction(st, t, fx) ==
    IF st.raised THEN st
    ELSE IF ~RateKnown(fx, t.date, t.currency) THEN [st EXCEPT !.raised = TRUE]
    ELSE LET rate == RateOn(fx, t.date, t.currency)
             qty  == Abs(t.quantity)
         IN  IF t.type = "BUY"
             THEN [st EXCEPT !.lots = Append(@, Lot(qty, CostPerShare(t, rate))),
                             !.shares_open = @ + qty,
                             !.cost_basis_open = @ + TotalCostBase(t, rate)]
             ELSE IF t.type = "SELL"
             THEN LET closed == CloseFront(st.lots, qty, 0)
                  IN  [st EXCEPT !.lots = closed.lots,
                                 !.shares_open = @ - qty,
                                 !.cost_basis_open = @ - closed.cost_removed,
                                 !.realized_pl = @ + (ProceedsBase(t, rate)
                                                      - closed.cost_removed)]
             ELSE st

RECURSIVE PassTransactions(_, _, _)
PassTransactions(st, txs, fx) ==
    IF txs = <<>> THEN st
    ELSE PassTransactions(PassTransaction(st, Head(txs), fx), Tail(txs), fx)

\* the rest of the body of the date loop: price the position, append the snapshot
PassClose(st, d, bars, fx, bps, flat) ==
    IF st.raised THEN st
    ELSE IF d \notin DOMAIN bars THEN [st EXCEPT !.raised = TRUE]
    ELSE IF ~RateKnown(fx, d, bars[d].currency) THEN [st EXCEPT !.raised = TRUE]
    ELSE LET bar  == bars[d]
             snap == PipelineSnapshot(bar, RateOn(fx, bar.date, bar.currency),
                                      st.shares_open, st.cost_basis_open, st.realized_pl,
                                      st.peak_hypo, st.lots, bps, flat)
         IN  [st EXCEPT !.shares_open = snap.shares_open,
                        !.cost_basis_open = snap.cost_basis_open_base,
                        !.peak_hypo = Finite(snap.peak_hypo_pl_to_date_base),
                        !.snapshots = Append(@, snap)]

\* for current_date in timeline_dates
RECURSIVE PassDates(_, _, _, _, _, _, _)
PassDates(dates, st, trades, bars, fx, bps, flat) ==
    IF dates = <<>> \/ st.raised THEN st
    ELSE LET d     == Head(dates)
             today == SelectSeq(trades, LAMBDA t : t.date = d)
             after == PassTransactions(st, today, fx)
         IN  PassDates(Tail(dates), PassClose(after, d, bars, fx, bps, flat),
                       trades, bars, fx, bps, flat)

\* the body of the loop over price_by_symbol for one symbol
SymbolPass(symbol, transactions, prices, fx, bps, flat) ==
    LET bars   == PriceMap(Group(prices, symbol))
        trades == SortByDate(Group(transactions, symbol))
    IN  PassDates(TimelineDates(bars, trades), FreshPass,
                  trades, bars, fx, bps, flat)

\* snapshots.sort(key=lambda s: (s.symbol, s.date)) of the passes' snapshots,
\* each pass having appended its own in ascending date order
RECURSIVE SortedSnapshots(_, _)
SortedSnapshots(k, passes) ==
    IF k > Len(Symbols) THEN <<>>
    ELSE (IF Symbols[k] \in DOMAIN passes
          THEN [i \in 1..Len(passes[Symbols[k]].snapshots) |->
                   OfSymbol(Symbols[k], passes[Symbols[k]].snapshots[i])]
          ELSE <<>>) \o SortedSnapshots(k + 1, passes)

\* the call raised KeyError
PipelineKeyError == [raised |-> TRUE, value |-> <<>>]

\* build_daily_snapshots(transactions, prices, fx_provider,
\*                       estimated_sell_fee_bps=..., estimated_sell_fee_flat=...)
BuildDailySnapshots(transactions, prices, fx, bps, flat) ==
    LET keys   == GroupKeys(prices)
        passes == [symbol \in { keys[i] : i \in 1..Len(keys) } |->
                      SymbolPass(symbol, transactions, prices, fx, bps, flat)]
    IN  IF \E symbol \in DOMAIN passes : passes[symbol].raised
        THEN PipelineKeyError
        ELSE Returned(SortedSnapshots(1, passes))

\* build_daily_snapshots is not running
PipelineIdle ==
    /\ fx_provider = NoFXRateProvider
    /\ estimated_sell_fee_bps = 0
    /\ estimated_sell_fee_flat = 0
    /\ p_pc = "idle"
    /\ current_date = 0
    /\ price_map = <<>>
    /\ symbol_transactions = <<>>
    /\ p_lots = <<>>
    /\ p_shares_open = 0
    /\ p_cost_basis_open = 0
    /\ p_realized_pl = 0
    /\ p_peak_hypo = NegInfinity
    /\ p_snapshots = <<>>

\* compute_daily is not running
ComputeDailyIdle ==
    /\ feed = "any"
    /\ lot_method = "FIFO"
    /\ pc = "idle"
    /\ day = 0
    /\ price_series = <<>>
    /\ transactions_by_date = <<>>
    /\ tx = NoTx
    /\ lots = <<>>
    /\ realized_pl = 0
    /\ peak_hypo = NegInfinity
    /\ snapshots = <<>>

\* the reader has not read
NoRead == [read |-> FALSE, rows |-> {}, open |-> {}]

\* no request recomputes snapshots
RecomputeIdle ==
    /\ db_transactions = {}
    /\ db_snapshots = {}
    /\ db_prices = {}
    /\ tx_quantity = <<>>
    /\ requests = <<>>
    /\ observed = NoRead

\* prices an InMemoryPriceSource is built from: AAPL with close and open
\* on two dates, MSFT with close alone on one
PricesAsLoaded ==
    [ticker \in {"AAPL", "MSFT"} |->
        IF ticker = "AAPL"
        THEN [d \in {1, 2} |-> [field \in {"close", "open"} |->
                                   IF field = "close" THEN D(d) ELSE D(d + 2)]]
        ELSE [d \in {1} |-> [field \in {"close"} |-> D(5)]]]

\* a CachingPriceSource just constructed
CacheIdle ==
    /\ delegate_prices = "loaded"
    /\ heap = <<>>
    /\ range_cache = <<>>
    /\ delegate_calls = <<>>
    /\ first_result = <<>>
    /\ call_log = <<>>

\* build_daily_snapshots has not been called
NoBuildCall ==
    [transactions |-> <<>>, prices |-> <<>>, fx_provider |-> NoFXRateProvider,
     estimated_sell_fee_bps |-> 0, estimated_sell_fee_flat |-> 0]

NotCalled == [raised |-> FALSE, value |-> <<>>, called |-> FALSE]

BuildIdle ==
    /\ build_call = NoBuildCall
    /\ build_outcome = NotCalled

\* nothing outside the two walks is running
OthersIdle == CallsIdle /\ RatesIdle /\ RecomputeIdle /\ CacheIdle /\ BuildIdle

\* ------------------------------------------------------------ compute_daily
Init ==
    /\ feed \in {"any", "golden"}
    /\ lot_method \in (IF feed = "golden" THEN {"FIFO"} ELSE LotMethods)
    /\ pc = "day_loop"
    /\ day = 0
    /\ price_series = <<>>
    /\ transactions_by_date = <<>>
    /\ tx = NoTx
    /\ lots = <<>>
    /\ realized_pl = 0
    /\ peak_hypo = NegInfinity
    /\ snapshots = <<>>
    /\ PipelineIdle
    /\ OthersIdle

\* for day in sorted(price_series.keys()): the next priced date
NextDay ==
    /\ pc = "day_loop"
    /\ UNCHANGED << p_vars, o_vars >>
    /\ feed = "any" => day < MaxDay
    /\ \E p \in DayPriceInputs(day + 1) :
          price_series' = Append(price_series, p)
    /\ day' = day + 1
    /\ transactions_by_date' = Append(transactions_by_date, <<>>)
    /\ pc' = "tx_loop"
    /\ UNCHANGED << feed, lot_method, tx, lots, realized_pl, peak_hypo, snapshots >>

Fetch(t) ==
    /\ tx' = t
    /\ transactions_by_date' =
          [transactions_by_date EXCEPT ![day] = Append(@, t)]

\* tx.type == "BUY"
ApplyBuy ==
    /\ pc = "tx_loop"
    /\ UNCHANGED << p_vars, o_vars >>
    /\ TxCount < MaxTx
    /\ \E t \in BuyInputs(day, TxCount) :
          /\ Fetch(t)
          /\ lots' = Append(lots, OpenLot(t))
    /\ UNCHANGED << feed, lot_method, pc, day, price_series, realized_pl,
                    peak_hypo, snapshots >>

\* tx.type == "SELL"
ApplySell ==
    /\ pc = "tx_loop"
    /\ UNCHANGED << p_vars, o_vars >>
    /\ TxCount < MaxTx
    /\ \E t \in SellInputs(day, TxCount) :
          LET closed == CloseLots(lots, SellQty(t), 0, lot_method)
          IN  /\ Fetch(t)
              /\ lots' = closed.lots
              /\ realized_pl' = realized_pl + (SellProceeds(t) - closed.lot_cost_total)
    /\ UNCHANGED << feed, lot_method, pc, day, price_series, peak_hypo, snapshots >>

\* DIVIDEND / FEE / SPLIT fall through both branches
ApplyOther ==
    /\ pc = "tx_loop"
    /\ UNCHANGED << p_vars, o_vars >>
    /\ TxCount < MaxTx
    /\ \E t \in OtherInputs(day, TxCount) : Fetch(t)
    /\ UNCHANGED << feed, lot_method, pc, day, price_series, lots, realized_pl,
                    peak_hypo, snapshots >>

\* the day's transactions are exhausted: value the position, append the snapshot
EmitSnapshot ==
    /\ pc = "tx_loop"
    /\ UNCHANGED << p_vars, o_vars >>
    /\ feed = "golden" => GoldenPending(day, TxCount) = {}
    /\ LET snap == DailySnapshot(day, lots, realized_pl, price_series[day], peak_hypo)
       IN  /\ snapshots' = Append(snapshots, snap)
           /\ peak_hypo' = Finite(snap.peak_hypo_pl_to_date_base)
    /\ pc' = "day_loop"
    /\ UNCHANGED << feed, lot_method, day, price_series, transactions_by_date, tx,
                    lots, realized_pl >>

Next == NextDay \/ ApplyBuy \/ ApplySell \/ ApplyOther \/ EmitSnapshot

Spec == Init /\ [][Next]_vars

\* --------------------------------------- build_daily_snapshots, the walk
Currencies == IF fx_provider.present THEN {"USD", "CAD"} ELSE {"USD"}

\* <<adj_close, currency>> of the price bars
BarQuotes == { <<D(1), "USD">>, <<D(3), "USD">>, <<D(3), "CAD">> }

PipelineInputs(d, types, orders) ==
    { Transaction(d, ty, o[1], o[2], o[3], o[4], cur) :
        ty \in types, o \in orders, cur \in Currencies }

PipelineInit ==
    /\ ComputeDailyIdle
    /\ OthersIdle
    /\ \E c \in PipelineConfigs :
          /\ fx_provider = c[1]
          /\ estimated_sell_fee_bps = c[2]
          /\ estimated_sell_fee_flat = c[3]
    /\ p_pc = "date_loop"
    /\ current_date = 0
    /\ price_map = <<>>
    /\ symbol_transactions = <<>>
    /\ p_lots = <<>>
    /\ p_shares_open = 0
    /\ p_cost_basis_open = 0
    /\ p_realized_pl = 0
    /\ p_peak_hypo = NegInfinity
    /\ p_snapshots = <<>>

params == << fx_provider, estimated_sell_fee_bps, estimated_sell_fee_flat >>

\* transactions of the current date consumed so far
ConsumedToday ==
    Len(SelectSeq(symbol_transactions, LAMBDA t : t.date = current_date))

\* for current_date in timeline_dates: a date with a price bar, or a date that
\* only transactions put on the timeline
NextDate ==
    /\ p_pc = "date_loop"
    /\ UNCHANGED << cd_vars, o_vars >>
    /\ current_date < MaxDate
    /\ \E bar \in { PriceBar(current_date + 1, b[1], b[2]) :
                        b \in { q \in BarQuotes : q[2] \in Currencies } }
                  \cup (IF Len(symbol_transactions) < MaxTrades THEN {NoBar} ELSE {}) :
          price_map' = Append(price_map, bar)
    /\ current_date' = current_date + 1
    /\ p_pc' = "tx_loop"
    /\ UNCHANGED << params, symbol_transactions, p_lots, p_shares_open,
                    p_cost_basis_open, p_realized_pl, p_peak_hypo, p_snapshots >>

\* t_type == "BUY"
PipelineBuy ==
    /\ p_pc = "tx_loop"
    /\ UNCHANGED << cd_vars, o_vars >>
    /\ Len(symbol_transactions) < MaxTrades
    /\ \E t \in PipelineInputs(current_date, {"BUY"}, BuyOrders) :
          /\ RateKnown(fx_provider, t.date, t.currency)
          /\ LET rate == RateOn(fx_provider, t.date, t.currency)
             IN  /\ symbol_transactions' = Append(symbol_transactions, t)
                 /\ p_lots' = Append(p_lots, Lot(Abs(t.quantity), CostPerShare(t, rate)))
                 /\ p_shares_open' = p_shares_open + Abs(t.quantity)
                 /\ p_cost_basis_open' = p_cost_basis_open + TotalCostBase(t, rate)
    /\ UNCHANGED << params, p_pc, current_date, price_map, p_realized_pl,
                    p_peak_hypo, p_snapshots >>

\* t_type == "SELL"
PipelineSell ==
    /\ p_pc = "tx_loop"
    /\ UNCHANGED << cd_vars, o_vars >>
    /\ Len(symbol_transactions) < MaxTrades
    /\ \E t \in PipelineInputs(current_date, {"SELL"}, SellOrders) :
          /\ RateKnown(fx_provider, t.date, t.currency)
          /\ LET rate   == RateOn(fx_provider, t.date, t.currency)
                 closed == CloseFront(p_lots, Abs(t.quantity), 0)
             IN  /\ symbol_transactions' = Append(symbol_transactions, t)
                 /\ p_lots' = closed.lots
                 /\ p_shares_open' = p_shares_open - Abs(t.quantity)
                 /\ p_cost_basis_open' = p_cost_basis_open - closed.cost_removed
                 /\ p_realized_pl' = p_realized_pl + (ProceedsBase(t, rate) - closed.cost_removed)
    /\ UNCHANGED << params, p_pc, current_date, price_map, p_peak_hypo, p_snapshots >>

\* non-trade events are ignored, after their rate has been looked up
PipelineOther ==
    /\ p_pc = "tx_loop"
    /\ UNCHANGED << cd_vars, o_vars >>
    /\ Len(symbol_transactions) < MaxTrades
    /\ \E t \in PipelineInputs(current_date, {"DIVIDEND"}, {<<1, D(2), D(0), D(0)>>}) :
          /\ RateKnown(fx_provider, t.date, t.currency)
          /\ symbol_transactions' = Append(symbol_transactions, t)
    /\ UNCHANGED << params, p_pc, current_date, price_map, p_lots, p_shares_open,
                    p_cost_basis_open, p_realized_pl, p_peak_hypo, p_snapshots >>

\* fx_provider.rate raises KeyError for the transaction's date and currency
RaiseMissingTxRate ==
    /\ p_pc = "tx_loop"
    /\ UNCHANGED << cd_vars, o_vars >>
    /\ Len(symbol_transactions) < MaxTrades
    /\ \E t \in PipelineInputs(current_date, {"BUY"}, BuyOrders)
                \cup PipelineInputs(current_date, {"SELL"}, SellOrders)
                \cup PipelineInputs(current_date, {"DIVIDEND"}, {<<1, D(2), D(0), D(0)>>}) :
          /\ ~RateKnown(fx_provider, t.date, t.currency)
          /\ symbol_transactions' = Append(symbol_transactions, t)
    /\ p_pc' = "raised"
    /\ UNCHANGED << params, current_date, price_map, p_lots, p_shares_open,
                    p_cost_basis_open, p_realized_pl, p_peak_hypo, p_snapshots >>

\* _get_price raises KeyError: the date has transactions and no price bar
RaiseMissingPrice ==
    /\ p_pc = "tx_loop"
    /\ UNCHANGED << cd_vars, o_vars >>
    /\ price_map[current_date] = NoBar
    /\ ConsumedToday > 0
    /\ p_pc' = "raised"
    /\ UNCHANGED << params, current_date, price_map, symbol_transactions, p_lots,
                    p_shares_open, p_cost_basis_open, p_realized_pl, p_peak_hypo,
                    p_snapshots >>

\* fx_provider.rate raises KeyError for the bar's date and currency
RaiseMissingBarRate ==
    /\ p_pc = "tx_loop"
    /\ UNCHANGED << cd_vars, o_vars >>
    /\ price_map[current_date] # NoBar
    /\ ~RateKnown(fx_provider, current_date, price_map[current_date].currency)
    /\ p_pc' = "raised"
    /\ UNCHANGED << params, current_date, price_map, symbol_transactions, p_lots,
                    p_shares_open, p_cost_basis_open, p_realized_pl, p_peak_hypo,
                    p_snapshots >>

\* the date's transactions are consumed: price the position, append the snapshot
PipelineEmit ==
    /\ p_pc = "tx_loop"
    /\ UNCHANGED << cd_vars, o_vars >>
    /\ price_map[current_date] # NoBar
    /\ RateKnown(fx_provider, current_date, price_map[current_date].currency)
    /\ LET bar  == price_map[current_date]
           snap == PipelineSnapshot(bar, RateOn(fx_provider, bar.date, bar.currency),
                                    p_shares_open, p_cost_basis_open, p_realized_pl,
                                    p_peak_hypo, p_lots, estimated_sell_fee_bps,
                                    estimated_sell_fee_flat)
       IN  /\ p_snapshots' = Append(p_snapshots, snap)
           /\ p_shares_open' = snap.shares_open
           /\ p_cost_basis_open' = snap.cost_basis_open_base
           /\ p_peak_hypo' = Finite(snap.peak_hypo_pl_to_date_base)
    /\ p_pc' = "date_loop"
    /\ UNCHANGED << params, current_date, price_map, symbol_transactions, p_lots,
                    p_realized_pl >>

PipelineNext ==
    \/ NextDate \/ PipelineBuy \/ PipelineSell \/ PipelineOther \/ PipelineEmit
    \/ RaiseMissingTxRate \/ RaiseMissingPrice \/ RaiseMissingBarRate

SpecPipeline == PipelineInit /\ [][PipelineNext]_vars

\* ------------------------------------------------------------ both engines
\* a run of either engine; compute_daily under the two policies that differ
\* from each other (a SELL that names its lots is followed in Spec alone)
EnginesInit == (Init /\ lot_method \in {"FIFO", "LIFO"}) \/ PipelineInit

EnginesNext ==
    \/ NextDay \/ ApplyBuy \/ ApplySell \/ ApplyOther \/ EmitSnapshot
    \/ NextDate \/ PipelineBuy \/ PipelineSell \/ PipelineOther \/ PipelineEmit
    \/ RaiseMissingTxRate \/ RaiseMissingPrice \/ RaiseMissingBarRate

SpecEngines == EnginesInit /\ [][EnginesNext]_vars

\* ------------------------------------------------- calls of compute_daily
\* <<type, quantity, price, fee, tax>> of the transactions a caller may pass
CallOrders ==
    { <<"BUY", 3, D(2), D(1), D(0)>>, <<"SELL", 2, D(2), D(0), D(1)>> }

CallDates == 1..MaxCallDate

\* the transaction lists: ids are distinct and unrelated to the dates
CallLists ==
    UNION { { [i \in 1..n |-> TransactionInput(i, f[i][1], f[i][2][1], f[i][2][2],
                                               f[i][2][3], f[i][2][4], f[i][2][5], NoIds)] :
                f \in [1..n -> CallDates \X CallOrders] } : n \in 0..MaxCallTx }

\* the price mappings: any set of dates, 3.00 on odd dates and 1.00 on even ones
CallPriceSeries ==
    { [d \in S |-> IF d % 2 = 1 THEN D(3) ELSE D(1)] : S \in SUBSET CallDates }

CallsInit ==
    /\ ComputeDailyIdle
    /\ PipelineIdle
    /\ RatesIdle
    /\ RecomputeIdle
    /\ CacheIdle
    /\ BuildIdle
    /\ call_transactions \in CallLists
    /\ call_prices \in CallPriceSeries
    /\ call_method \in LotMethods
    /\ prev_result = NoResult
    /\ last_result = NoResult

\* the orders in which a list of n transactions can be passed
Orderings(n) == { f \in [1..n -> 1..n] : \A i, j \in 1..n : f[i] = f[j] => i = j }

\* compute_daily(symbol, transactions, price_series, lot_method=...) returns;
\* the caller passes its transactions in any order and keeps the last two results
Call ==
    /\ \E f \in Orderings(Len(call_transactions)) :
          LET passed == [i \in 1..Len(call_transactions) |-> call_transactions[f[i]]]
          IN  last_result' = [returned |-> TRUE,
                              transactions |-> passed,
                              snapshots |-> ComputeDaily(passed, call_prices, call_method)]
    /\ prev_result' = last_result
    /\ UNCHANGED << call_transactions, call_prices, call_method, cd_vars, p_vars,
                    rate_vars, db_vars, cache_vars,
                    build_vars >>

CallsNext == Call

SpecCalls == CallsInit /\ [][CallsNext]_vars

\* ------------------------------- calls with DIVIDEND, FEE and SPLIT events
\* <<type, quantity, price, fee, tax>> of the transactions of a mixed list
MixedOrders ==
    CallOrders \cup { <<ty, 1, D(2), D(0), D(0)>> : ty \in {"DIVIDEND", "FEE", "SPLIT"} }

MixedLists ==
    UNION { { [i \in 1..n |-> TransactionInput(i, f[i][1], f[i][2][1], f[i][2][2],
                                               f[i][2][3], f[i][2][4], f[i][2][5], NoIds)] :
                f \in [1..n -> CallDates \X MixedOrders] } : n \in 0..MaxCallTx }

MixedInit ==
    /\ ComputeDailyIdle
    /\ PipelineIdle
    /\ RatesIdle
    /\ RecomputeIdle
    /\ CacheIdle
    /\ BuildIdle
    /\ call_transactions \in MixedLists
    /\ call_prices \in CallPriceSeries
    /\ call_method \in LotMethods
    /\ prev_result = NoResult
    /\ last_result = NoResult

\* compute_daily(...) returns; the caller passes its transactions as it holds them
CallAsHeld ==
    /\ pc = "idle"
    /\ last_result' = [returned |-> TRUE,
                        transactions |-> call_transactions,
                        snapshots |-> ComputeDaily(call_transactions, call_prices,
                                                   call_method)]
    /\ prev_result' = last_result
    /\ UNCHANGED << call_transactions, call_prices, call_method, cd_vars, p_vars,
                    rate_vars, db_vars, cache_vars,
                    build_vars >>

MixedNext == CallAsHeld

SpecMixed == MixedInit /\ [][MixedNext]_vars

\* the loop of compute_daily step by step, or whole calls on mixed lists
LedgerInit == Init \/ MixedInit

LedgerNext == Next \/ CallAsHeld

SpecLedger == LedgerInit /\ [][LedgerNext]_vars

\* ------------------------------------------ calls of build_daily_snapshots
\* AAPL trades and is priced in USD, MSFT in CAD
CurrencyOf(symbol) == IF symbol = "AAPL" THEN "USD" ELSE "CAD"

BatchDates == 1..MaxBatchDate

\* the transaction lists of a call: any symbols and dates in any order
BatchTransactions ==
    UNION { { [i \in 1..n |->
                 OfSymbol(f[i][1],
                          Transaction(f[i][2], f[i][3][1], f[i][3][2], f[i][3][3],
                                      f[i][3][4], f[i][3][5], CurrencyOf(f[i][1])))] :
                f \in [1..n -> { Symbols[k] : k \in 1..Len(Symbols) }
                               \X BatchDates \X CallOrders] } :
            n \in 0..MaxBatchTx }

\* the bar of a symbol on a date: 3.00 on odd dates and 1.00 on even ones
BarOf(symbol, d) ==
    OfSymbol(symbol, PriceBar(d, IF d % 2 = 1 THEN D(3) ELSE D(1), CurrencyOf(symbol)))

\* the bars of the (symbol, date) pairs P, by symbol and date
BarsOf(P) ==
    LET code(pair) == (SymbolIndex(pair[1]) - 1) * MaxBatchDate + pair[2]
        order      == Ascending({ code(pair) : pair \in P })
    IN  [i \in 1..Len(order) |->
            LET pair == CHOOSE q \in P : code(q) = order[i]
            IN  BarOf(pair[1], pair[2])]

Reversed(seq) == [i \in 1..Len(seq) |-> seq[Len(seq) + 1 - i]]

\* the price lists of a call: any set of (symbol, date) pairs, in either order
BatchPrices ==
    UNION { { BarsOf(P), Reversed(BarsOf(P)) } :
            P \in SUBSET ({ Symbols[k] : k \in 1..Len(Symbols) } \X BatchDates) }

\* <<fx_provider, estimated_sell_fee_bps, estimated_sell_fee_flat>>: the
\* defaults, or the first date's rate and an estimated fee of 25% + 2
BatchConfigs ==
    { <<NoFXRateProvider, 0, D(0)>>, <<FXRateProvider(RatesFirstDate), 2500, D(2)>> }

BuildInit ==
    /\ ComputeDailyIdle
    /\ PipelineIdle
    /\ CallsIdle
    /\ RatesIdle
    /\ RecomputeIdle
    /\ CacheIdle
    /\ \E txs \in BatchTransactions, bars \in BatchPrices, c \in BatchConfigs :
          build_call = [transactions |-> txs, prices |-> bars, fx_provider |-> c[1],
                        estimated_sell_fee_bps |-> c[2],
                        estimated_sell_fee_flat |-> c[3]]
    /\ build_outcome = NotCalled

\* the outcome of a call that has been made
Called(outcome) ==
    [raised |-> outcome.raised, value |-> outcome.value, called |-> TRUE]

\* build_daily_snapshots(...) returns or raises
BuildCall ==
    /\ ~build_outcome.called
    /\ build_call # NoBuildCall
    /\ build_outcome' =
          Called(BuildDailySnapshots(build_call.transactions, build_call.prices,
                                     build_call.fx_provider,
                                     build_call.estimated_sell_fee_bps,
                                     build_call.estimated_sell_fee_flat))
    /\ UNCHANGED << build_call, cd_vars, p_vars, call_vars, rate_vars, db_vars,
                    cache_vars >>

BuildNext == BuildCall

SpecBuild == BuildInit /\ [][BuildNext]_vars

\* ---------------------------- both engines called on the same transactions
\* <<type, quantity, price, fee, tax>>: a BUY whose cost per share is exact
\* (3 / 1), a BUY whose cost per share is not (7 / 3), and a SELL
PairOrders ==
    { <<"BUY", 1, D(2), D(0), D(1)>>, <<"BUY", 3, D(2), D(1), D(0)>>,
      <<"SELL", 2, D(2), D(0), D(1)>> }

PairLists ==
    UNION { { [i \in 1..n |-> TransactionInput(i, f[i][1], f[i][2][1], f[i][2][2],
                                               f[i][2][3], f[i][2][4], f[i][2][5], NoIds)] :
                f \in [1..n -> CallDates \X PairOrders] } : n \in 0..MaxPairTx }

\* the same transactions as smart_advisor.models.Transaction, in base currency
AsTransactions(txs) ==
    [i \in 1..Len(txs) |->
        OfSymbol(Symbols[1],
                 Transaction(txs[i].date, txs[i].type, txs[i].quantity, txs[i].price,
                             txs[i].fee, txs[i].tax, BaseCurrency))]

\* the same prices as smart_advisor.models.PriceBar, in base currency
AsPriceBars(prices) ==
    LET days == Ascending(DOMAIN prices)
    IN  [i \in 1..Len(days) |->
            OfSymbol(Symbols[1], PriceBar(days[i], prices[days[i]], BaseCurrency))]

\* one symbol, FIFO, no FX provider, no estimated sell fees; build_daily_snapshots
\* receives the transactions in the order of their ids or in the opposite one
PairInit ==
    /\ ComputeDailyIdle
    /\ PipelineIdle
    /\ RatesIdle
    /\ RecomputeIdle
    /\ CacheIdle
    /\ call_transactions \in PairLists
    /\ call_prices \in CallPriceSeries
    /\ call_method = "FIFO"
    /\ prev_result = NoResult
    /\ last_result = NoResult
    /\ \E passed \in { AsTransactions(call_transactions),
                       Reversed(AsTransactions(call_transactions)) } :
          build_call = [transactions |-> passed, prices |-> AsPriceBars(call_prices),
                        fx_provider |-> NoFXRateProvider,
                        estimated_sell_fee_bps |-> 0,
                        estimated_sell_fee_flat |-> D(0)]
    /\ build_outcome = NotCalled

\* the comparison calls compute_daily once
PairCompute == ~last_result.returned /\ CallAsHeld

\* and then build_daily_snapshots on the same data
PairBuild == last_result.returned /\ BuildCall

PairNext == PairCompute \/ PairBuild

SpecPair == PairInit /\ [][PairNext]_vars

\* ----------------------------------- the same data under FIFO and under LIFO
PoliciesInit ==
    /\ ComputeDailyIdle
    /\ PipelineIdle
    /\ RatesIdle
    /\ RecomputeIdle
    /\ CacheIdle
    /\ BuildIdle
    /\ call_transactions \in PairLists
    /\ call_prices \in CallPriceSeries
    /\ call_method = "FIFO"
    /\ prev_result = NoResult
    /\ last_result = NoResult

\* compute_daily(..., lot_method=method) returns
CallWith(method) ==
    /\ call_method' = method
    /\ last_result' = [returned |-> TRUE,
                        transactions |-> call_transactions,
                        snapshots |-> ComputeDaily(call_transactions, call_prices, method)]
    /\ prev_result' = last_result
    /\ UNCHANGED << call_transactions, call_prices, cd_vars, p_vars, rate_vars,
                    db_vars, cache_vars, build_vars >>

\* the caller computes under FIFO and then once more under LIFO
PoliciesNext ==
    \/ ~last_result.returned /\ CallWith("FIFO")
    \/ last_result.returned /\ ~prev_result.returned /\ CallWith("LIFO")

SpecPolicies == PoliciesInit /\ [][PoliciesNext]_vars

\* --------------------------------------------- calls of FXRateProvider.rate
\* a table that also holds an entry for USD -> USD
RatesWithSelf ==
    [k \in {<<1, "CAD", "USD">>, <<1, "USD", "USD">>} |->
        IF k[2] = "CAD" THEN D(3) \div 4 ELSE D(2)]

RateTables == {RatesTwoDates, RatesFirstDate, RatesWithSelf}

CurrencyCodes == {"USD", "CAD", "usd", "cad"}

\* no engine is running; rate may be called
RatesInit ==
    /\ ComputeDailyIdle
    /\ PipelineIdle
    /\ CallsIdle
    /\ RatesIdle
    /\ RecomputeIdle
    /\ CacheIdle
    /\ BuildIdle

\* provider.rate(d, from_currency, to_currency)
RateCall ==
    /\ p_pc = "idle"
    /\ \E rates \in RateTables, d \in 1..MaxDate, from_currency \in CurrencyCodes,
          to_currency \in CurrencyCodes \cup {NoCurrency} :
          /\ fx_call' = [provider |-> FXRateProvider(rates), d |-> d,
                         from_currency |-> from_currency, to_currency |-> to_currency]
          /\ fx_outcome' = RateOutcome(FXRateProvider(rates), d, from_currency, to_currency)
    /\ UNCHANGED << cd_vars, p_vars, call_vars, db_vars, cache_vars,
                    build_vars >>

\* FXRateProvider.rate on its own, or inside a run of build_daily_snapshots
ConversionInit == RatesInit \/ PipelineInit

ConversionNext ==
    \/ RateCall
    \/ NextDate \/ PipelineBuy \/ PipelineSell \/ PipelineOther \/ PipelineEmit
    \/ RaiseMissingTxRate \/ RaiseMissingPrice \/ RaiseMissingBarRate

SpecConversion == ConversionInit /\ [][ConversionNext]_vars

\* ---------------------------------------- recompute_snapshots_for_symbol
\* The database is one that runs each statement on the rows committed when the
\* statement starts (READ COMMITTED, the default of the configured PostgreSQL):
\* a DELETE waits for a row another open transaction has deleted and skips it
\* once that transaction has committed, and does not see rows committed after
\* it started.
RequestIds == 1..MaxRequests

\* daily_bar rows on the given dates: 3.00 on odd dates and 1.00 on even ones
PricesOn(dates) == [d \in dates |-> IF d % 2 = 1 THEN D(3) ELSE D(1)]

\* price_series of the daily_bar rows of the symbol
StoredPrices == PricesOn(db_prices)

\* the TransactionInputs built from the transaction rows ids: request i added a
\* BUY of its quantity @ 2.00 with fee 1.00 on the first date
StoredTransactions(ids) ==
    LET order == Ascending(ids)
    IN  [k \in 1..Len(order) |->
            TransactionInput(order[k], 1, "BUY", tx_quantity[order[k]], D(2), D(1), D(0),
                             NoIds)]

\* the DailyPortfolioSnapshot rows request w builds from compute_daily's result
SnapshotRows(w, ids) ==
    LET snaps == ComputeDaily(StoredTransactions(ids), StoredPrices, "FIFO")
    IN  { [date |-> snaps[i].date, by |-> w, snapshot |-> snaps[i]] : i \in 1..Len(snaps) }

\* compute_daily raises on these rows: cost / tx.quantity with a quantity of 0,
\* for a BUY dated on a priced date
ComputeDailyRaises(ids) ==
    \E i \in 1..Len(StoredTransactions(ids)) :
        LET t == StoredTransactions(ids)[i]
        IN  t.type = "BUY" /\ t.quantity = 0 /\ t.date \in DOMAIN StoredPrices

NewRequest == [pc |-> "start", computed |-> {}, targets |-> {}, deleted |-> {}]

\* the store holds the rows of an earlier recomputation (request 0)
RecomputeInit ==
    /\ ComputeDailyIdle
    /\ PipelineIdle
    /\ CallsIdle
    /\ RatesIdle
    /\ CacheIdle
    /\ BuildIdle
    /\ db_transactions = {}
    /\ db_prices = CallDates
    /\ tx_quantity = [w \in RequestIds |-> 3]
    /\ db_snapshots = SnapshotRows(0, {})
    /\ requests = [w \in RequestIds |-> NewRequest]
    /\ observed = NoRead

\* add_transaction: session.add(tx); await session.commit()
AddTransaction ==
    /\ \E w \in RequestIds :
          /\ requests[w].pc = "start"
          /\ db_transactions' = db_transactions \cup {w}
          /\ requests' = [requests EXCEPT ![w].pc = "added"]
    /\ UNCHANGED << db_prices, tx_quantity, db_snapshots, observed, cd_vars, p_vars,
                    call_vars, rate_vars,
                    cache_vars,
                    build_vars >>

\* the two SELECTs and compute_daily; a request may also recompute without
\* having added a transaction
SelectAndCompute ==
    /\ \E w \in RequestIds :
          /\ requests[w].pc \in {"start", "added"}
          /\ db_prices # {}
          /\ ~ComputeDailyRaises(db_transactions)
          /\ requests' = [requests EXCEPT ![w].pc = "computed",
                                          ![w].computed = SnapshotRows(w, db_transactions)]
    /\ UNCHANGED << db_prices, tx_quantity, db_transactions, db_snapshots, observed,
                    cd_vars, p_vars,
                    call_vars, rate_vars, cache_vars,
                    build_vars >>

\* mutant: the DELETE is committed on its own
StoreAfterDeleteCommitted(rows, deleted) == rows \ deleted

\* the committed rows once the DELETE has run: the transaction is still open
StoreAfterDelete(rows, deleted) == rows

\* the DELETE statement starts: it will act on the rows committed now
DeleteStart ==
    /\ \E w \in RequestIds :
          /\ requests[w].pc = "computed"
          /\ requests' = [requests EXCEPT ![w].pc = "deleting",
                                          ![w].targets = db_snapshots]
    /\ UNCHANGED << db_prices, tx_quantity, db_transactions, db_snapshots, observed,
                    cd_vars, p_vars,
                    call_vars, rate_vars, cache_vars,
                    build_vars >>

\* the DELETE statement ends: no open transaction holds one of its rows; the
\* rows another transaction has deleted and committed meanwhile are skipped
DeleteEnd ==
    /\ \E w \in RequestIds :
          /\ requests[w].pc = "deleting"
          /\ \A v \in RequestIds \ {w} :
                requests[v].pc = "deleted" => requests[v].deleted \cap requests[w].targets = {}
          /\ LET deleted == requests[w].targets \cap db_snapshots
             IN  /\ requests' = [requests EXCEPT ![w].pc = "deleted", ![w].deleted = deleted]
                 /\ db_snapshots' = StoreAfterDelete(db_snapshots, deleted)
    /\ UNCHANGED << db_prices, tx_quantity, db_transactions, observed, cd_vars, p_vars,
                    call_vars, rate_vars,
                    cache_vars,
                    build_vars >>

\* session.add(...) for each snapshot; await session.commit()
CommitSnapshots ==
    /\ \E w \in RequestIds :
          /\ requests[w].pc = "deleted"
          /\ db_snapshots' = (db_snapshots \ requests[w].deleted) \cup requests[w].computed
          /\ requests' = [requests EXCEPT ![w].pc = "done"]
    /\ UNCHANGED << db_prices, tx_quantity, db_transactions, observed, cd_vars, p_vars,
                    call_vars, rate_vars,
                    cache_vars,
                    build_vars >>

\* get_symbol_timeline: one SELECT of the symbol's snapshot rows
ReadSnapshots ==
    /\ requests # <<>>
    /\ observed' = [read |-> TRUE,
                     rows |-> { [date |-> r.date, by |-> r.by] : r \in db_snapshots },
                     open |-> { w \in RequestIds : requests[w].pc = "deleted" }]
    /\ UNCHANGED << db_prices, tx_quantity, db_transactions, db_snapshots, requests,
                    cd_vars, p_vars,
                    call_vars, rate_vars, cache_vars,
                    build_vars >>

RecomputeNext ==
    \/ AddTransaction \/ SelectAndCompute \/ DeleteStart \/ DeleteEnd
    \/ CommitSnapshots \/ ReadSnapshots

SpecRecompute == RecomputeInit /\ [][RecomputeNext]_vars

\* ------------------------------------------- recomputations that fail
\* the rows an earlier recomputation (request 0) stored when every date was
\* priced and the symbol had no transaction
EarlierRows ==
    LET snaps == ComputeDaily(<<>>, PricesOn(CallDates), "FIFO")
    IN  { [date |-> snaps[i].date, by |-> 0, snapshot |-> snaps[i]] : i \in 1..Len(snaps) }

\* the daily_bar rows are there or have gone; the first request's payload may
\* carry a quantity of 0
FailuresInit ==
    /\ ComputeDailyIdle
    /\ PipelineIdle
    /\ CallsIdle
    /\ RatesIdle
    /\ CacheIdle
    /\ BuildIdle
    /\ db_transactions = {}
    /\ db_prices \in { {}, CallDates }
    /\ tx_quantity \in { [w \in RequestIds |-> IF w = 1 THEN q ELSE 3] : q \in {0, 3} }
    /\ db_snapshots = EarlierRows
    /\ requests = [w \in RequestIds |-> NewRequest]
    /\ observed = NoRead

\* mutant: the DELETE runs, and is committed, before compute_daily is called
StoreAfterFailureDeleted(rows) == {}

\* the committed rows when the function is left before its DELETE
StoreAfterFailure(rows) == rows

\* if not price_rows: return []
ReturnEmpty ==
    /\ \E w \in RequestIds :
          /\ requests[w].pc \in {"start", "added"}
          /\ db_prices = {}
          /\ requests' = [requests EXCEPT ![w].pc = "empty"]
    /\ db_snapshots' = StoreAfterFailure(db_snapshots)
    /\ UNCHANGED << db_transactions, db_prices, tx_quantity, observed, cd_vars, p_vars,
                    call_vars, rate_vars, cache_vars, build_vars >>

\* compute_daily raises and the exception leaves recompute_snapshots_for_symbol
ComputeRaises ==
    /\ \E w \in RequestIds :
          /\ requests[w].pc \in {"start", "added"}
          /\ db_prices # {}
          /\ ComputeDailyRaises(db_transactions)
          /\ requests' = [requests EXCEPT ![w].pc = "raised"]
    /\ db_snapshots' = StoreAfterFailure(db_snapshots)
    /\ UNCHANGED << db_transactions, db_prices, tx_quantity, observed, cd_vars, p_vars,
                    call_vars, rate_vars, cache_vars, build_vars >>

FailuresNext == RecomputeNext \/ ReturnEmpty \/ ComputeRaises

SpecFailures == FailuresInit /\ [][FailuresNext]_vars

\* ------------------------------------ CachingPriceSource.get_price_series
\* start_date or end_date left open (None)
NoDate == 0

\* the keys the calls use: (ticker, price_field, start_date, end_date)
CacheKeys ==
    { <<"AAPL", "close", NoDate, NoDate>>,
      <<"AAPL", "open", NoDate, NoDate>>,
      <<"AAPL", "close", 2, 2>>,
      <<"MSFT", "open", NoDate, 1>> }

\* the delegate's prices after its data moved: every value one unit higher,
\* and AAPL priced on one more date
PricesAsUpdated ==
    [ticker \in {"AAPL", "MSFT"} |->
        IF ticker = "AAPL"
        THEN [d \in {1, 2, 3} |-> [field \in {"close", "open"} |->
                                      IF field = "close" THEN D(d) + 1 ELSE D(d + 2) + 1]]
        ELSE [d \in {1} |-> [field \in {"close"} |-> D(5) + 1]]]

\* the delegate's prices: ticker -> date -> field -> value
Prices(held) == IF held = "loaded" THEN PricesAsLoaded ELSE PricesAsUpdated

\* InMemoryPriceSource.get_price_series: the dates within the range that carry
\* the field or a close, each with the field's value, else the close
DelegateSeries(prices, key) ==
    LET ticker == key[1]
        price_field == key[2]
        start_date == key[3]
        end_date == key[4]
        series == IF ticker \in DOMAIN prices THEN prices[ticker] ELSE <<>>
        kept == { d \in DOMAIN series :
                    /\ ~(start_date # NoDate /\ d < start_date)
                    /\ ~(end_date # NoDate /\ d > end_date)
                    /\ ~(price_field \notin DOMAIN series[d]
                         /\ "close" \notin DOMAIN series[d]) }
    IN  [d \in kept |-> IF price_field \in DOMAIN series[d]
                        THEN series[d][price_field]
                        ELSE series[d]["close"]]

\* a new dict object holding mapping m
NewDict(h, m) == [heap |-> Append(h, m), obj |-> Len(h) + 1]

\* the cached object itself is handed out
CopyOutAlias(h, o) == [heap |-> h, obj |-> o]

\* dict(self._range_cache[key]): a new object with the cached content
CopyOut(h, o) == NewDict(h, h[o])

\* f with key k set to v
Store(f, k, v) == [x \in DOMAIN f \cup {k} |-> IF x = k THEN v ELSE f[x]]

\* what a caller does to a mapping it was given: it clears it and sets one entry
Tampered == [d \in {9} |-> 0]

CacheInit ==
    /\ ComputeDailyIdle
    /\ PipelineIdle
    /\ CallsIdle
    /\ RatesIdle
    /\ RecomputeIdle
    /\ CacheIdle
    /\ BuildIdle

\* one call of get_price_series
GetPriceSeries ==
    /\ Len(call_log) < MaxCacheCalls
    /\ \E key \in CacheKeys :
        LET miss == key \notin DOMAIN range_cache
            fetched == NewDict(heap, DelegateSeries(Prices(delegate_prices), key))
            cache == IF miss THEN Store(range_cache, key, fetched.obj) ELSE range_cache
            h == IF miss THEN fetched.heap ELSE heap
            out == CopyOut(h, cache[key])
        IN  /\ range_cache' = cache
            /\ heap' = out.heap
            /\ delegate_calls' =
                   IF miss
                   THEN Store(delegate_calls, key,
                              IF key \in DOMAIN delegate_calls
                              THEN delegate_calls[key] + 1 ELSE 1)
                   ELSE delegate_calls
            /\ first_result' =
                   IF miss /\ key \notin DOMAIN first_result
                   THEN Store(first_result, key, fetched.heap[fetched.obj])
                   ELSE first_result
            /\ call_log' = Append(call_log, [key |-> key, obj |-> out.obj,
                                             returned |-> out.heap[out.obj]])
    /\ UNCHANGED << delegate_prices, cd_vars, p_vars, call_vars, rate_vars, db_vars,
                    build_vars >>

\* the caller changes a mapping an earlier call returned
MutateReturned ==
    /\ \E i \in 1..Len(call_log) :
        /\ heap[call_log[i].obj] # Tampered
        /\ heap' = [heap EXCEPT ![call_log[i].obj] = Tampered]
    /\ UNCHANGED << delegate_prices, range_cache, delegate_calls, first_result,
                    call_log, cd_vars, p_vars, call_vars, rate_vars, db_vars,
                    build_vars >>

\* the delegate's data moves between calls
UpdatePrices ==
    /\ delegate_prices = "loaded"
    /\ delegate_prices' = "updated"
    /\ UNCHANGED << heap, range_cache, delegate_calls, first_result, call_log,
                    cd_vars, p_vars, call_vars, rate_vars, db_vars,
                    build_vars >>

CacheNext == GetPriceSeries \/ MutateReturned \/ UpdatePrices

SpecCache == CacheInit /\ [][CacheNext]_vars

\* ================================================================= claims
\* ------------------------------------------------------- shared vocabulary
Last(s) == s[Len(s)]

\* the step just taken fetched and applied a transaction of type ty
Applied(ty) == tx'.id # tx.id /\ tx'.type = ty

\* the transactions fetched so far, in the order of the walk
RECURSIVE Flatten(_)
Flatten(ss) == IF ss = <<>> THEN <<>> ELSE Head(ss) \o Flatten(Tail(ss))

Fetched == Flatten(transactions_by_date)

\* quantity the lot opened by transaction id holds in ls (0 when it is gone)
QuantityOf(ls, id) ==
    SumSeq([i \in 1..Len(ls) |-> IF ls[i].lot_id = id THEN ls[i].quantity ELSE 0])

\* the lots appear in the order in which they were opened
InOpeningOrder(ls) ==
    \A i, j \in 1..Len(ls) : i < j => ls[i].lot_id < ls[j].lot_id

\* lot id was reduced (or removed) by the step
Reduced(id) == QuantityOf(lots', id) < QuantityOf(lots, id)

\* lot id was reduced by the step and still holds shares
PartlyConsumed(id) == Reduced(id) /\ QuantityOf(lots', id) > 0

\* total quantity of the transactions of type ty in txs
RECURSIVE QuantityOfType(_, _)
QuantityOfType(txs, ty) ==
    IF txs = <<>> THEN 0
    ELSE (IF Head(txs).type = ty THEN Abs(Head(txs).quantity) ELSE 0)
         + QuantityOfType(Tail(txs), ty)

\* shares_open of the snapshot before snapshot k (0 before the first)
SharesBefore(k) == IF k = 1 THEN 0 ELSE snapshots[k - 1].shares_open

\* ----------------------------------------------------------------------- C1
\* C1: under FIFO a SELL reduces a lot only when every lot opened earlier is
\* fully consumed and a partly consumed lot stays at the front; under LIFO it
\* reduces a lot only when every lot opened later is fully consumed and a
\* partly consumed lot stays at the back; so under FIFO and LIFO the open lots
\* are always in opening order.
C1_MatchingOrder ==
    [][ /\ (Applied("SELL") /\ lot_method = "FIFO") =>
              /\ \A i, j \in 1..Len(lots) :
                    (i < j /\ Reduced(lots[j].lot_id))
                        => QuantityOf(lots', lots[i].lot_id) = 0
              /\ \A i \in 1..Len(lots) :
                    PartlyConsumed(lots[i].lot_id) => lots'[1].lot_id = lots[i].lot_id
        /\ (Applied("SELL") /\ lot_method = "LIFO") =>
              /\ \A i, j \in 1..Len(lots) :
                    (i < j /\ Reduced(lots[i].lot_id))
                        => QuantityOf(lots', lots[j].lot_id) = 0
              /\ \A i \in 1..Len(lots) :
                    PartlyConsumed(lots[i].lot_id)
                        => lots'[Len(lots')].lot_id = lots[i].lot_id
        /\ lot_method \in {"FIFO", "LIFO"} => InOpeningOrder(lots')
      ]_vars

\* a SELL has left a partly consumed lot beside an untouched one
C1_Witness ==
    /\ lot_method \in {"FIFO", "LIFO"}
    /\ tx.type = "SELL"
    /\ Len(lots) = 2
    /\ \E i \in 1..2 : \E t \in { Fetched[k] : k \in 1..Len(Fetched) } :
          t.id = lots[i].lot_id /\ lots[i].quantity < t.quantity

\* ----------------------------------------------------------------------- C2
\* C2: under SPEC_ID a SELL that names lots in specific_lot_ids leaves every
\* lot it does not name with its quantity, its cost per share and its place
\* among the other unnamed lots.
C2_OnlyNamedLotsConsumed ==
    [][ (Applied("SELL") /\ lot_method = "SPEC_ID" /\ tx'.specific_lot_ids # NoIds) =>
          LET named == { tx'.specific_lot_ids[k] : k \in 1..Len(tx'.specific_lot_ids) }
              Unnamed(lot) == lot.lot_id \notin named
          IN  SelectSeq(lots', Unnamed) = SelectSeq(lots, Unnamed)
      ]_vars

\* ----------------------------------------------------------------------- C3
\* C3: in every snapshot shares_open is the sum of the quantities of the open
\* lots, every open lot holds a positive quantity, and shares_open is never
\* negative.
C3_SharesOpenIsLotTotal ==
    (pc = "day_loop" /\ snapshots # <<>>) =>
        /\ Last(snapshots).shares_open = SumSeq([i \in 1..Len(lots) |-> lots[i].quantity])
        /\ Last(snapshots).shares_open >= 0
        /\ \A i \in 1..Len(lots) : lots[i].quantity > 0

\* a snapshot taken after a SELL left part of a position open
C3_Witness ==
    /\ pc = "day_loop" /\ snapshots # <<>>
    /\ tx.type = "SELL"
    /\ Len(lots) = 2
    /\ Last(snapshots).shares_open = 3

\* ----------------------------------------------------------------------- C4
\* the BUY that opened lot id
OpeningTx(id) == CHOOSE t \in { Fetched[k] : k \in 1..Len(Fetched) } : t.id = id

LotCostTotal == SumSeq([i \in 1..Len(lots) |-> lots[i].quantity * lots[i].cost_per_share])

RECURSIVE SharesAfter(_, _)
SharesAfter(txs, n) ==
    IF txs = <<>> THEN n
    ELSE LET t == Head(txs)
         IN  SharesAfter(Tail(txs),
                 IF t.type = "BUY" THEN n + t.quantity
                 ELSE IF t.type = "SELL" THEN n - Min(Abs(t.quantity), n)
                 ELSE n)

\* C5 as stated: shares_open of a snapshot is shares_open of the snapshot
\* before it (0 for the first) plus the BUY quantities minus the absolute SELL
\* quantities of the transactions dated on its day.
C5_PositionConservation ==
    \A k \in 1..Len(snapshots) :
        snapshots[k].shares_open =
            SharesBefore(k) + QuantityOfType(transactions_by_date[k], "BUY")
                            - QuantityOfType(transactions_by_date[k], "SELL")

\* C5 as amended: shares_open of a snapshot is what is left when the day's
\* transactions are applied in order to shares_open of the snapshot before it,
\* a BUY adding its quantity and a SELL removing the smaller of its absolute
\* quantity and the shares open at that moment.
C5_ConservationOfSharesHeld ==
    \A k \in 1..Len(snapshots) :
        snapshots[k].shares_open = SharesAfter(transactions_by_date[k], SharesBefore(k))

\* the second snapshot follows a day with a BUY and a SELL of shares held
C5_Witness ==
    /\ Len(snapshots) = 2
    /\ snapshots[1].shares_open = 3
    /\ QuantityOfType(transactions_by_date[2], "BUY") = 1
    /\ QuantityOfType(transactions_by_date[2], "SELL") = 2
    /\ snapshots[2].shares_open = 2

\* ----------------------------------------------------------------------- C6
\* C6: a SELL that asks for more than is open removes every lot (the cost
\* removed is the whole cost basis), raises nothing, and the walk goes on: the
\* day's snapshot has shares_open 0 and every date walked has its snapshot.
C6_OversellLeniency ==
    [][ /\ (Applied("SELL") /\ Abs(tx'.quantity) > SharesOpen(lots)) =>
              /\ lots' = <<>>
              /\ realized_pl' - realized_pl =
                    (Abs(tx'.quantity) * tx'.price - tx'.fee - tx'.tax) - LotCostTotal
              /\ pc' = "tx_loop"
        /\ pc' = "day_loop" =>
              /\ Len(snapshots') = day'
              /\ lots' = <<>> => Last(snapshots').shares_open = 0
      ]_vars

\* an oversell on the first date, and the snapshot of the second date
C6_Witness ==
    /\ Len(snapshots) = 2
    /\ QuantityOfType(transactions_by_date[1], "SELL")
          > QuantityOfType(transactions_by_date[1], "BUY")
    /\ QuantityOfType(transactions_by_date[1], "BUY") > 0
    /\ snapshots[1].shares_open = 0

\* ----------------------------------------------------------------------- C7
\* cost of the q oldest shares of ls
RECURSIVE OldestCost(_, _)
OldestCost(ls, q) ==
    IF q = 0 \/ ls = <<>> THEN 0
    ELSE Min(q, Head(ls).quantity) * Head(ls).cost_per_share
         + OldestCost(Tail(ls), q - Min(q, Head(ls).quantity))

\* quantity x cost per share of what the step took from each lot
CostRemoved ==
    SumSeq([i \in 1..Len(lots) |->
        (lots[i].quantity - QuantityOf(lots', lots[i].lot_id)) * lots[i].cost_per_share])

C9_GoldenScenario ==
    (feed = "golden" /\ Len(snapshots) >= 3) =>
        /\ snapshots[3].shares_open = 150
        /\ snapshots[3].market_value_base = D(2100)
        /\ snapshots[3].cost_basis_open_base = D(1610)
        /\ snapshots[3].unrealized_pl_base = D(490)
        /\ snapshots[3].realized_pl_to_date_base = D(0)
        /\ snapshots[3].hypo_liquidation_pl_base = D(485)
        /\ snapshots[3].day_opportunity_base = D(485)

\* ----------------------------------------------------------------------- C8
\* q x p + f + t of a transaction
StatedCost(t) == t.quantity * t.price + t.fee + t.tax

\* 1 without a provider or for the base currency, else the provider's rate of
\* that date for that currency
StatedRate(d, currency) ==
    IF ~fx_provider.present \/ currency = BaseCurrency THEN D(1)
    ELSE fx_provider.rates[<<d, currency, BaseCurrency>>]

\* the step of build_daily_snapshots just taken applied a transaction of type ty
PipelineApplied(ty) ==
    /\ Len(symbol_transactions') = Len(symbol_transactions) + 1
    /\ Last(symbol_transactions').type = ty
    /\ p_pc' # "raised"

\* the step of build_daily_snapshots just taken appended a snapshot
PipelineEmitted == Len(p_snapshots') = Len(p_snapshots) + 1

\* a BUY step of compute_daily opened exactly one lot, of quantity q and cost
\* per share (q x p + f + t) / q
OpenedOneLot ==
    /\ Len(lots') = Len(lots) + 1
    /\ SubSeq(lots', 1, Len(lots)) = lots
    /\ Last(lots').quantity = tx'.quantity
    /\ Last(lots').cost_per_share = DivRound(StatedCost(tx'), tx'.quantity)

\* a BUY step of build_daily_snapshots opened exactly one lot, of quantity q
\* and cost per share (q x p + f + t) x rate / q, and the running cost basis
\* rose by (q x p + f + t) x rate
PipelineOpenedOneLot ==
    LET t    == Last(symbol_transactions')
        cost == FMul(StatedCost(t), StatedRate(t.date, t.currency))
    IN  /\ p_lots' = Append(p_lots, Lot(t.quantity, DivRound(cost, t.quantity)))
        /\ p_cost_basis_open' - p_cost_basis_open = cost

\* the snapshot just appended converts the bar's price at the rate of the
\* snapshot's own date
PricedAtOwnDate ==
    LET s   == Last(p_snapshots')
        bar == price_map[s.date]
    IN  /\ s.date = current_date
        /\ s.fx_rate = StatedRate(s.date, bar.currency)
        /\ s.price_base = FMul(bar.adj_close, s.fx_rate)

StatedProceeds(s) ==
    IF s.shares_open > 0
    THEN Max(0, DivRound(s.market_value_base * (10000 - estimated_sell_fee_bps), 10000)
                - estimated_sell_fee_flat)
    ELSE 0

\* C10: in every snapshot emitted by build_daily_snapshots market_value =
\* shares_open x price; the hypothetical proceeds are
\* max(0, market_value x (1 - estimated_sell_fee_bps/10000) -
\* estimated_sell_fee_flat) when shares_open > 0 and 0 when shares_open = 0;
\* hypothetical liquidation P/L = realized P/L + (hypothetical proceeds -
\* cost_basis_open); day_opportunity = max(0, hypothetical liquidation P/L -
\* realized P/L).
C10_SnapshotValuation ==
    \A i \in 1..Len(p_snapshots) :
        LET s == p_snapshots[i]
        IN  /\ s.shares_open >= 0
            /\ s.market_value_base = s.shares_open * s.price_base
            /\ s.hypo_liquidation_pl_base =
                  s.realized_pl_to_date_base + (StatedProceeds(s) - s.cost_basis_open_base)
            /\ s.day_opportunity_base =
                  Max(0, s.hypo_liquidation_pl_base - s.realized_pl_to_date_base)

\* with an estimated fee of 25% + 2, one free share priced 3.00 has proceeds
\* 0.25; an earlier snapshot of the same run had no shares open
C10_Witness ==
    /\ estimated_sell_fee_bps = 2500
    /\ Len(p_snapshots) = 2
    /\ p_snapshots[1].shares_open = 0
    /\ p_snapshots[1].hypo_liquidation_pl_base = 0
    /\ p_snapshots[2].shares_open = 1
    /\ p_snapshots[2].market_value_base = D(3)
    /\ p_snapshots[2].cost_basis_open_base = 0
    /\ p_snapshots[2].hypo_liquidation_pl_base = D(1) \div 4
    /\ p_snapshots[2].day_opportunity_base = D(1) \div 4

\* ---------------------------------------------------------------------- C11
\* C11: in every snapshot emitted by compute_daily in which shares_open is 0
\* (before the first purchase or after a full exit), day_opportunity is exactly
\* 0 and the hypothetical liquidation P/L equals the realized P/L to date.
C11_FlatPositionHasNoOpportunity ==
    \A i \in 1..Len(snapshots) :
        snapshots[i].shares_open = 0 =>
            /\ snapshots[i].day_opportunity_base = 0
            /\ snapshots[i].hypo_liquidation_pl_base = snapshots[i].realized_pl_to_date_base

\* the first date had no purchase yet; on the second a purchase was sold in
\* full, leaving a realized P/L
C11_Witness ==
    /\ Len(snapshots) = 2
    /\ snapshots[1].shares_open = 0
    /\ snapshots[1].realized_pl_to_date_base = 0
    /\ Len(transactions_by_date[2]) = 2
    /\ transactions_by_date[2][1].type = "BUY"
    /\ transactions_by_date[2][2].type = "SELL"
    /\ snapshots[2].shares_open = 0
    /\ snapshots[2].realized_pl_to_date_base # 0
    /\ snapshots[2].hypo_liquidation_pl_base = snapshots[2].realized_pl_to_date_base

\* ---------------------------------------------------------------------- C12
\* the largest hypothetical liquidation P/L among the first k snapshots (k >= 1)
RECURSIVE MaxHypo(_, _)
MaxHypo(snaps, k) ==
    IF k = 1 THEN snaps[1].hypo_liquidation_pl_base
    ELSE Max(MaxHypo(snaps, k - 1), snaps[k].hypo_liquidation_pl_base)

RunningPeak(snaps) ==
    /\ \A k \in 1..Len(snaps) : snaps[k].peak_hypo_pl_to_date_base = MaxHypo(snaps, k)
    /\ snaps # <<>> => snaps[1].peak_hypo_pl_to_date_base = snaps[1].hypo_liquidation_pl_base
    /\ \A k \in 2..Len(snaps) :
          snaps[k].peak_hypo_pl_to_date_base >= snaps[k - 1].peak_hypo_pl_to_date_base

\* C12: in the snapshot sequence of one symbol, from compute_daily and from
\* build_daily_snapshots, the peak of snapshot k is the maximum of the
\* hypothetical liquidation P/L over snapshots 1..k: the first snapshot's peak
\* is its own hypothetical value, never an infinite sentinel, and the peak
\* never decreases from one snapshot to the next.
C12_PeakIsRunningMaximum == RunningPeak(snapshots) /\ RunningPeak(p_snapshots)

\* compute_daily: the first hypothetical value is a loss and becomes the peak;
\* the second is a larger loss and the peak stays
C12_Witness ==
    /\ Len(snapshots) = 2
    /\ snapshots[1].hypo_liquidation_pl_base < 0
    /\ snapshots[1].peak_hypo_pl_to_date_base = snapshots[1].hypo_liquidation_pl_base
    /\ snapshots[2].hypo_liquidation_pl_base < snapshots[1].hypo_liquidation_pl_base
    /\ snapshots[2].peak_hypo_pl_to_date_base = snapshots[1].hypo_liquidation_pl_base

\* ---------------------------------------------------------------------- C13
\* C13: in every snapshot emitted by compute_daily whose peak hypothetical P/L
\* is strictly positive, drawdown_from_peak_pct lies in the closed interval
\* [-100, 0].
C13_DrawdownWithinRange ==
    \A i \in 1..Len(snapshots) :
        snapshots[i].peak_hypo_pl_to_date_base > 0 =>
            /\ snapshots[i].drawdown_from_peak_pct >= D(-100)
            /\ snapshots[i].drawdown_from_peak_pct <= 0

\* ---------------------------------------------------------------------- C14
\* (hypothetical liquidation P/L - peak) / peak x 100 when the peak is not 0,
\* and 0 when it is
StatedDrawdown(s) ==
    IF s.peak_hypo_pl_to_date_base # 0
    THEN DivRound((s.hypo_liquidation_pl_base - s.peak_hypo_pl_to_date_base) * Scale,
                  s.peak_hypo_pl_to_date_base) * 100
    ELSE 0

\* C14: in every snapshot, from compute_daily and from build_daily_snapshots,
\* drawdown_from_peak_pct equals (hypothetical liquidation P/L - peak) / peak
\* x 100 when the peak is not 0, and exactly 0 when the peak is 0.
C14_DrawdownFormula ==
    /\ \A i \in 1..Len(snapshots) :
          snapshots[i].drawdown_from_peak_pct = StatedDrawdown(snapshots[i])
    /\ \A i \in 1..Len(p_snapshots) :
          p_snapshots[i].drawdown_from_peak_pct = StatedDrawdown(p_snapshots[i])

\* ---------------------------------------------------------------------- C15
\* C15: compute_daily returns exactly one snapshot for each date that is a key
\* of the price mapping and no other snapshot, in strictly ascending date
\* order; a date on which there are transactions but no price gets no snapshot
\* of its own.
C15_OneSnapshotPerPricedDate ==
    last_result.returned =>
        LET r == last_result.snapshots
        IN  /\ Len(r) = Cardinality(DOMAIN call_prices)
            /\ { r[i].date : i \in 1..Len(r) } = DOMAIN call_prices
            /\ \A i, j \in 1..Len(r) : i < j => r[i].date < r[j].date
            /\ \A k \in 1..Len(call_transactions) :
                  call_transactions[k].date \notin DOMAIN call_prices =>
                      \A i \in 1..Len(r) : r[i].date # call_transactions[k].date

\* a BUY dated the first date, prices for the second date only: one snapshot,
\* of the second date
C15_Witness ==
    /\ last_result.returned
    /\ Len(call_transactions) = 1
    /\ call_transactions[1].type = "BUY"
    /\ call_transactions[1].date = 1
    /\ DOMAIN call_prices = {2}
    /\ Len(last_result.snapshots) = 1
    /\ last_result.snapshots[1].date = 2

\* ---------------------------------------------------------------------- C16
\* the caller's transactions in ascending (date, id) order
InDateIdOrder ==
    CHOOSE s \in { [i \in 1..Len(call_transactions) |-> call_transactions[f[i]]] :
                     f \in Orderings(Len(call_transactions)) } :
        \A i, j \in 1..Len(s) :
            i < j => \/ s[i].date < s[j].date
                     \/ (s[i].date = s[j].date /\ s[i].id < s[j].id)

\* C16: compute_daily is a function of the set of its inputs: two calls with
\* the same transactions, prices and policy return identical snapshot
\* sequences, transactions dated the same day are applied in ascending
\* transaction-id order, and permuting the input transaction list (ids
\* distinct) never changes the result.
C16_ResultIndependentOfInputOrder ==
    /\ (prev_result.returned /\ last_result.returned) =>
          prev_result.snapshots = last_result.snapshots
    /\ last_result.returned =>
          last_result.snapshots =
              Walk(Ascending(DOMAIN call_prices), FreshCall, InDateIdOrder,
                   call_prices, call_method)

\* a BUY with id 1 and a SELL with id 2 of the same priced date were passed
\* BUY first, then SELL first: both calls applied the BUY first
C16_Witness ==
    /\ prev_result.returned /\ last_result.returned
    /\ Len(call_transactions) = 2
    /\ call_transactions[1].type = "BUY" /\ call_transactions[1].date = 1
    /\ call_transactions[2].type = "SELL" /\ call_transactions[2].date = 1
    /\ 1 \in DOMAIN call_prices
    /\ prev_result.transactions[1].id = 1
    /\ last_result.transactions[1].id = 2
    /\ last_result.snapshots[1].shares_open = 1

\* ---------------------------------------------------------------------- C17
\* the spellings of one currency
Spellings == { {"USD", "usd"}, {"CAD", "cad"} }

SameCurrency(a, b) == \E sp \in Spellings : a \in sp /\ b \in sp

\* the upper-case spelling of a code
Canonical(c) == CHOOSE u \in {"USD", "CAD"} : SameCurrency(c, u)

\* what the claim says a call returns
StatedOutcome(c) ==
    LET target == IF c.to_currency = NoCurrency THEN c.provider.base_currency
                  ELSE c.to_currency
        key    == <<c.d, Canonical(c.from_currency), Canonical(target)>>
    IN  IF SameCurrency(c.from_currency, target) THEN Returned(D(1))
        ELSE IF key \in DOMAIN c.provider.rates THEN Returned(c.provider.rates[key])
        ELSE KeyError

\* the run's provider has no rate for currency on date d
RateMissing(d, currency) ==
    /\ fx_provider.present
    /\ ~SameCurrency(currency, BaseCurrency)
    /\ <<d, Canonical(currency), BaseCurrency>> \notin DOMAIN fx_provider.rates

\* C17: FXRateProvider.rate returns 1.0 whenever the source and target
\* currency are the same, case-insensitively, without consulting the table;
\* otherwise it returns the table entry for exactly (date, from, to) and raises
\* KeyError when that entry is absent, never substituting a nearby date or a
\* default. build_daily_snapshots does not catch this error: when a transaction
\* or price bar needs a missing rate it raises and returns no snapshots.
C17_MissingRateRaises ==
    [][ /\ fx_call' # fx_call => fx_outcome' = StatedOutcome(fx_call')
        /\ Len(symbol_transactions') = Len(symbol_transactions) + 1 =>
              LET t == Last(symbol_transactions')
              IN  RateMissing(t.date, t.currency) <=> p_pc' = "raised"
        /\ PipelineEmitted =>
              ~RateMissing(current_date, price_map[current_date].currency)
        /\ p_pc = "raised" => UNCHANGED p_vars
      ]_vars

\* the first date was snapshotted; a CAD transaction of the second date found
\* no rate in a table that holds the first date's rate, and the run raised
C17_Witness ==
    /\ p_pc = "raised"
    /\ fx_provider = FXRateProvider(RatesFirstDate)
    /\ Len(p_snapshots) = 1
    /\ current_date = 2
    /\ Last(symbol_transactions).date = 2
    /\ Last(symbol_transactions).currency = "CAD"

\* ---------------------------------------------------------------------- C18
\* the rows of computation b among rows
RowsOf(rows, b) == { r \in rows : r.by = b }

AllCommitted ==
    /\ requests # <<>>
    /\ \A w \in RequestIds : requests[w].pc \in {"start", "done"}
    /\ \E w \in RequestIds : requests[w].pc = "done"

\* C19: after any sequence of recompute_snapshots_for_symbol calls for one
\* symbol, including calls whose database transactions interleave, once all of
\* them have committed the store holds exactly one snapshot row per
\* (symbol, date) and the stored set equals compute_daily over the symbol's
\* current transactions and prices: no row of an earlier computation survives
\* and no date is stored twice.
C19_StoreMatchesCurrentData ==
    AllCommitted =>
        /\ \A d \in DOMAIN StoredPrices :
              Cardinality({ r \in db_snapshots : r.date = d }) = 1
        /\ { r.snapshot : r \in db_snapshots } =
              { r.snapshot : r \in SnapshotRows(0, db_transactions) }

\* ---------------------------------------------------------------------- C20
\* C20: over any sequence of get_price_series calls the delegate is invoked at
\* most once per key (ticker, price_field, start_date, end_date), every call
\* returns a mapping equal to what the delegate's first invocation for that
\* key returned, and this holds whatever the caller did to the mappings it
\* was given before.
C20_CacheServesFirstResult ==
    /\ \A key \in DOMAIN delegate_calls : delegate_calls[key] <= 1
    /\ \A i \in 1..Len(call_log) :
        /\ call_log[i].key \in DOMAIN first_result
        /\ call_log[i].returned = first_result[call_log[i].key]

\* a key was served a second time after the caller tampered with the mapping
\* the first call returned and after the delegate's data moved, and the
\* delegate would by now answer differently
C20_Witness ==
    \E i, j \in 1..Len(call_log) :
        /\ i < j
        /\ call_log[i].key = call_log[j].key
        /\ heap[call_log[i].obj] = Tampered
        /\ heap[call_log[j].obj] # Tampered
        /\ delegate_prices = "updated"
        /\ DelegateSeries(Prices(delegate_prices), call_log[j].key) # call_log[j].returned

\* ---------------------------------------------------------------------- C21
\* the lots of ls whose id is id
LotsOf(ls, id) == SelectSeq(ls, LAMBDA l : l.lot_id = id)

\* every lot of after was a lot of before, with the same cost per share and
\* no more quantity
OnlyReduced(before, after) ==
    \A i \in 1..Len(after) :
        \E j \in 1..Len(before) :
            /\ before[j].lot_id = after[i].lot_id
            /\ before[j].cost_per_share = after[i].cost_per_share
            /\ before[j].quantity >= after[i].quantity

\* the transactions of txs that are BUYs or SELLs
TradesOnly(txs) == SelectSeq(txs, LAMBDA t : t.type \in {"BUY", "SELL"})

\* C21: in compute_daily only a BUY adds a lot, and it leaves the lots already
\* open and the realized P/L as they are; only a SELL reduces or removes lots
\* or changes the realized P/L, and it adds none; a lot's cost per share never
\* changes after it is opened; a DIVIDEND, FEE or SPLIT leaves the lots and
\* the realized P/L unchanged, so the snapshots a call returns are those of
\* the call on the same input without these transactions.
C21_OnlyTradesChangeTheLedger ==
    [][ /\ Applied("BUY") =>
              /\ Len(lots') = Len(lots) + 1
              /\ SubSeq(lots', 1, Len(lots)) = lots
              /\ realized_pl' = realized_pl
        /\ Applied("SELL") => OnlyReduced(lots, lots')
        /\ (\E ty \in OtherTypes : Applied(ty)) =>
              /\ lots' = lots
              /\ realized_pl' = realized_pl
        /\ (tx' = tx) => (lots' = lots /\ realized_pl' = realized_pl)
        /\ last_result'.returned =>
              last_result'.snapshots =
                  ComputeDaily(TradesOnly(last_result'.transactions), call_prices',
                               call_method')
      ]_vars

\* a call returned on a BUY of 3 and a SPLIT on one priced date, and its
\* snapshot of that date holds 3 shares
C21_Witness ==
    /\ last_result.returned
    /\ Len(last_result.transactions) = 2
    /\ last_result.transactions[1].type = "BUY"
    /\ last_result.transactions[2].type = "SPLIT"
    /\ last_result.transactions[1].date = 1
    /\ last_result.transactions[2].date = 1
    /\ 1 \in DOMAIN call_prices
    /\ last_result.snapshots[1].shares_open = 3
    /\ Len(TradesOnly(last_result.transactions)) = 1

\* ---------------------------------------------------------------------- C22
\* request w, which had added a transaction, commits its snapshots in this
\* step: create_transaction returns
Returns(w) ==
    /\ w \in db_transactions
    /\ requests[w].pc = "deleted"
    /\ requests'[w].pc = "done"

\* rows are the snapshots of compute_daily over the transactions ids
StoreEquals(rows, ids) ==
    /\ \A d \in DOMAIN StoredPrices : Cardinality({ r \in rows : r.date = d }) = 1
    /\ { r.snapshot : r \in rows } = { r.snapshot : r \in SnapshotRows(0, ids) }

\* C22: when create_transaction (or update_transaction) returns, the stored
\* snapshots of the symbol equal compute_daily over the symbol's transactions
\* as they are after the write: one row per date, computed from the written
\* transaction and the transactions committed with it (those another request
\* has written and not yet recomputed may or may not be counted).
C22_WriteReflectedOnReturn ==
    [][ \A w \in RequestIds :
            Returns(w) =>
                \E ids \in SUBSET db_transactions' :
                    /\ w \in ids
                    /\ StoreEquals(db_snapshots', ids) ]_vars

\* ---------------------------------------------------------------------- C23
\* the items of one symbol in a list of a call
Only(items, symbol) == SelectSeq(items, LAMBDA x : x.symbol = symbol)

\* the call made on one symbol's transactions and prices alone
Alone(symbol) ==
    BuildDailySnapshots(Only(build_call.transactions, symbol),
                        Only(build_call.prices, symbol), build_call.fx_provider,
                        build_call.estimated_sell_fee_bps,
                        build_call.estimated_sell_fee_flat)

\* C23: symbol independence in build_daily_snapshots: the snapshots returned
\* for a symbol are exactly those returned when the function is run on that
\* symbol's transactions and prices alone; the transactions and prices of any
\* other symbol in the same call have no effect on them.
C23_SymbolIndependence ==
    build_outcome.called =>
        \A k \in 1..Len(Symbols) :
            (Only(build_call.prices, Symbols[k]) # <<>> /\ ~Alone(Symbols[k]).raised) =>
                /\ ~build_outcome.raised
                /\ Only(build_outcome.value, Symbols[k]) = Alone(Symbols[k]).value

\* AAPL, bought and priced on the first date, has a snapshot when the call is
\* made on it alone; the call that also holds MSFT raised
C23_Witness ==
    /\ build_outcome.called
    /\ build_outcome.raised
    /\ Len(Only(build_call.transactions, "AAPL")) = 1
    /\ Only(build_call.transactions, "AAPL")[1].item.type = "BUY"
    /\ Only(build_call.transactions, "AAPL")[1].item.date = 1
    /\ Only(build_call.prices, "MSFT") # <<>>
    /\ ~Alone("AAPL").raised
    /\ Len(Alone("AAPL").value) = 1
    /\ Alone("AAPL").value[1].item.shares_open = 3

\* the snapshots of a symbol are those of the call on that symbol alone
\* whenever the call returns
C23_IndependentWhenReturned ==
    (build_outcome.called /\ ~build_outcome.raised) =>
        \A k \in 1..Len(Symbols) :
            /\ ~Alone(Symbols[k]).raised
            /\ Only(build_outcome.value, Symbols[k]) = Alone(Symbols[k]).value

\* ---------------------------------------------------------------------- C24
\* the transactions of txs dated on a key of the price mapping
OnPricedDates(txs, prices) == SelectSeq(txs, LAMBDA t : t.date \in DOMAIN prices)

\* C24: in compute_daily a BUY or SELL whose date is not a key of the price
\* mapping is never applied, not even on the next priced date: the snapshots
\* returned are those of the call without the transactions on unpriced dates.
C24_UnpricedTransactionsIgnored ==
    last_result.returned =>
        last_result.snapshots =
            ComputeDaily(OnPricedDates(last_result.transactions, call_prices),
                         call_prices, call_method)

\* a BUY dated on the first date, which has no price, was passed with a price
\* for the second date, whose snapshot shows no shares
C24_Witness ==
    /\ last_result.returned
    /\ DOMAIN call_prices = {2}
    /\ Len(last_result.transactions) = 1
    /\ last_result.transactions[1].type = "BUY"
    /\ last_result.transactions[1].date = 1
    /\ Len(last_result.snapshots) = 1
    /\ last_result.snapshots[1].date = 2
    /\ last_result.snapshots[1].shares_open = 0
    /\ last_result.snapshots[1].cost_basis_open_base = 0

\* ---------------------------------------------------------------------- C25
\* shares the step closed
QuantityClosed == SharesOpen(lots) - SharesOpen(lots')

\* C25: the realized P/L a SELL adds counts sale proceeds only for the
\* quantity actually closed: what it adds, before the cost removed is
\* deducted, is no more than the closed quantity times the price, so that no
\* proceeds are credited for shares that were not held (an oversell, or a SELL
\* with no open lot).
C25_ProceedsForClosedQuantityOnly ==
    [][ Applied("SELL") =>
            (realized_pl' - realized_pl) + CostRemoved <= QuantityClosed * tx'.price
      ]_vars

\* a SELL of 1 @ 3.00 with fee 1.00 met no open lot and realized P/L is 2.00
C25_Witness ==
    /\ Len(Fetched) = 1
    /\ tx.type = "SELL"
    /\ Abs(tx.quantity) = 1
    /\ tx.price = D(3)
    /\ tx.fee = D(1)
    /\ lots = <<>>
    /\ realized_pl = D(2)

\* ---------------------------------------------------------------------- C26
\* the sum of the quantities of the lots in the queue
QueueShares(ls) == SumSeq([i \in 1..Len(ls) |-> ls[i].quantity])

\* the sum of quantity x cost per share over the lots in the queue
QueueCost(ls) == SumSeq([i \in 1..Len(ls) |-> ls[i].quantity * ls[i].cost_per_share_base])

\* C26: in every snapshot emitted by build_daily_snapshots, for any sequence
\* of BUY and SELL transactions (several on one day and sells larger than the
\* open position included), shares_open equals the sum of the quantities of
\* the lots in the queue and cost_basis_open equals the sum of quantity x
\* cost per share over those lots (up to one unit of the last place kept for
\* each quotient that was rounded).
C26_RunningTotalsMatchQueue ==
    (p_pc = "date_loop" /\ p_snapshots # <<>>) =>
        /\ Last(p_snapshots).shares_open = QueueShares(p_lots)
        /\ Abs(Last(p_snapshots).cost_basis_open_base - QueueCost(p_lots))
              <= Len(symbol_transactions)

\* on the first date a SELL of 2 met no open lot and a BUY of 3 followed: the
\* queue holds one lot of 3 shares and the snapshot reports 1 share open
C26_Witness ==
    /\ p_pc = "date_loop"
    /\ Len(p_snapshots) = 1
    /\ Len(symbol_transactions) = 2
    /\ symbol_transactions[1].type = "SELL"
    /\ symbol_transactions[2].type = "BUY"
    /\ QueueShares(p_lots) = 3
    /\ p_snapshots[1].shares_open = 1
    /\ p_snapshots[1].lot_count = 1

\* ---------------------------------------------------------------------- C27
\* build_daily_snapshots received the transactions of each date in the order
\* of their ids
SuppliedInIdOrder ==
    SortByDate(Group(build_call.transactions, Symbols[1])) =
        [i \in 1..Len(call_transactions) |->
            AsTransactions(SortTransactions(call_transactions))[i].item]

\* no SELL of txs (in the order applied) exceeds the n shares open before it
RECURSIVE NeverOversold(_, _)
NeverOversold(txs, n) ==
    IF txs = <<>> THEN TRUE
    ELSE LET t == Head(txs)
         IN  IF t.type = "BUY" THEN NeverOversold(Tail(txs), n + t.quantity)
             ELSE IF t.type = "SELL"
                  THEN Abs(t.quantity) <= n /\ NeverOversold(Tail(txs), n - Abs(t.quantity))
                  ELSE NeverOversold(Tail(txs), n)

\* what the claim supposes of the inputs
EnginesComparable ==
    /\ \A i \in 1..Len(call_transactions) :
          /\ call_transactions[i].type \in {"BUY", "SELL"}
          /\ call_transactions[i].date \in DOMAIN call_prices
    /\ SuppliedInIdOrder
    /\ NeverOversold(SortTransactions(call_transactions), 0)

\* the cost per share of every BUY is an exact quotient
ExactCostPerShare ==
    \A i \in 1..Len(call_transactions) :
        call_transactions[i].type = "BUY" =>
            BuyCost(call_transactions[i]) % call_transactions[i].quantity = 0

\* both engines returned and their snapshots agree date by date on shares,
\* market value, cost basis, unrealized, realized, hypothetical, opportunity, peak
EnginesAgree ==
    /\ ~build_outcome.raised
    /\ Len(build_outcome.value) = Len(last_result.snapshots)
    /\ \A k \in 1..Len(last_result.snapshots) :
          LET a == build_outcome.value[k].item
              b == last_result.snapshots[k]
          IN  /\ a.date = b.date
              /\ a.shares_open = b.shares_open
              /\ a.market_value_base = b.market_value_base
              /\ a.cost_basis_open_base = b.cost_basis_open_base
              /\ a.unrealized_pl_base = b.unrealized_pl_base
              /\ a.realized_pl_to_date_base = b.realized_pl_to_date_base
              /\ a.hypo_liquidation_pl_base = b.hypo_liquidation_pl_base
              /\ a.day_opportunity_base = b.day_opportunity_base
              /\ a.peak_hypo_pl_to_date_base = b.peak_hypo_pl_to_date_base

BothReturned == build_outcome.called /\ last_result.returned

AppliedBy(d) ==
    SelectSeq(call_transactions,
              LAMBDA t : t.date <= d /\ t.date \in DOMAIN call_prices)

\* total sell proceeds minus total buy cost of txs, as the claim states them
StatedBalance(txs) ==
    SumSeq([i \in 1..Len(txs) |->
              IF txs[i].type = "SELL"
              THEN Abs(txs[i].quantity) * txs[i].price - txs[i].fee - txs[i].tax
              ELSE IF txs[i].type = "BUY"
                   THEN -(txs[i].quantity * txs[i].price + txs[i].fee + txs[i].tax)
                   ELSE 0])

\* the same with each BUY at quantity x its lot's stored cost per share
LotBalance(txs) ==
    SumSeq([i \in 1..Len(txs) |->
              IF txs[i].type = "SELL"
              THEN Abs(txs[i].quantity) * txs[i].price - txs[i].fee - txs[i].tax
              ELSE IF txs[i].type = "BUY"
                   THEN -(txs[i].quantity *
                            DivRound(txs[i].quantity * txs[i].price + txs[i].fee + txs[i].tax,
                                     txs[i].quantity))
                   ELSE 0])

\* the FIFO and the LIFO result agree date by date
PoliciesAgree ==
    /\ Len(prev_result.snapshots) = Len(last_result.snapshots)
    /\ \A k \in 1..Len(last_result.snapshots) :
          LET a == prev_result.snapshots[k]
              b == last_result.snapshots[k]
          IN  /\ a.date = b.date
              /\ a.shares_open = b.shares_open
              /\ a.market_value_base = b.market_value_base
              /\ a.hypo_liquidation_pl_base = b.hypo_liquidation_pl_base
              /\ a.peak_hypo_pl_to_date_base = b.peak_hypo_pl_to_date_base
              /\ a.realized_pl_to_date_base - a.cost_basis_open_base =
                    b.realized_pl_to_date_base - b.cost_basis_open_base

BothPolicies == prev_result.returned /\ last_result.returned

C29_DrawdownNeverPositive ==
    \A k \in 1..Len(snapshots) : snapshots[k].drawdown_from_peak_pct <= 0

\* the position has only ever shown a loss and the loss has deepened: the
\* curve is below its negative running peak
C29_Witness ==
    /\ Len(snapshots) = 2
    /\ snapshots[1].peak_hypo_pl_to_date_base < 0
    /\ snapshots[2].peak_hypo_pl_to_date_base < 0
    /\ snapshots[2].hypo_liquidation_pl_base < snapshots[2].peak_hypo_pl_to_date_base
    /\ snapshots[2].drawdown_from_peak_pct > 0

\* ---------------------------------------------------------------------- C30
\* request w leaves recompute_snapshots_for_symbol without a result in this step
Fails(w) ==
    /\ requests[w].pc \in {"start", "added"}
    /\ requests'[w].pc \in {"raised", "empty"}

\* no recomputation has come as far as its DELETE
OnlyFailures ==
    \A w \in RequestIds : requests[w].pc \in {"start", "added", "raised", "empty"}

\* C30: a recomputation that fails leaves the store untouched: if
\* compute_daily raises inside recompute_snapshots_for_symbol (for example on
\* a BUY of quantity 0), no stored snapshot of the symbol is deleted or
\* inserted and a reader still sees the previous complete set; likewise when
\* the symbol has no price rows the function returns an empty list without
\* deleting or inserting anything.
C30_FailedRecomputeLeavesStore ==
    [][ /\ \A w \in RequestIds :
              Fails(w) => /\ db_snapshots' = db_snapshots
                          /\ requests'[w].deleted = {}
                          /\ requests'[w].computed = {}
                          /\ requests'[w].pc = "empty" <=> db_prices = {}
        /\ OnlyFailures' =>
              /\ db_snapshots' = EarlierRows
              /\ observed'.read =>
                    observed'.rows = { [date |-> r.date, by |-> r.by] : r \in EarlierRows }
      ]_vars

\* request 1 stored a BUY of quantity 0, its recomputation raised, and the
\* reader then read the rows of the earlier recomputation, one per date
C30_Witness ==
    /\ tx_quantity[1] = 0
    /\ 1 \in db_transactions
    /\ requests[1].pc = "raised"
    /\ observed.read
    /\ { r.date : r \in observed.rows } = CallDates
    /\ \A r \in observed.rows : r.by = 0
    /\ db_snapshots = EarlierRows

====
